---- MODULE Spec2Model ----
(***************************************************************************)
(* Model of the veusz dataset transform plugins                            *)
(* (src/veusz/plugins/transformplugin.py).                                 *)
(*                                                                         *)
(* Floating point numbers are modelled as fixed point numbers: the         *)
(* integer n stands for n/Scale.  Results are rounded towards zero,        *)
(* magnitudes above MaxVal overflow to +inf / -inf, and NaN is a value of  *)
(* its own, as in IEEE arithmetic.  numpy arrays are sequences; an         *)
(* optional array (serr, perr, nerr) is None or Some(array).               *)
(***************************************************************************)
EXTENDS Integers, Sequences, FiniteSets, TLC

\* ------------------------------------------------------------------ bounds

\* fixed point scale: the integer n stands for the number n/Scale
Scale == 2
\* largest finite magnitude (in fixed point units); beyond it: +-inf
MaxVal == 1000
\* number of transform invocations in one run
MaxSteps == 1

\* ------------------------------------------------------------- float model

PInf == MaxVal + 1
NInf == 0 - (MaxVal + 1)
NaN == MaxVal + 2

\* n units as a fixed point number
F(n) == n * Scale

IsNaN(a) == a = NaN
IsInf(a) == a = PInf \/ a = NInf
isfinite(a) == a >= 0 - MaxVal /\ a <= MaxVal

Sat(n) == IF n > MaxVal THEN PInf ELSE IF n < 0 - MaxVal THEN NInf ELSE n
Sgn(a) == IF a > 0 THEN 1 ELSE IF a < 0 THEN 0 - 1 ELSE 0
IAbs(n) == IF n < 0 THEN 0 - n ELSE n
\* integer division rounding towards zero
TDiv(n, d) == Sgn(n) * Sgn(d) * (IAbs(n) \div IAbs(d))
SignedInf(s) == IF s < 0 THEN NInf ELSE PInf

FNeg(a) == IF IsNaN(a) THEN NaN ELSE 0 - a

FAdd(a, b) ==
    IF IsNaN(a) \/ IsNaN(b) THEN NaN
    ELSE IF IsInf(a) THEN (IF IsInf(b) /\ a # b THEN NaN ELSE a)
    ELSE IF IsInf(b) THEN b
    ELSE Sat(a + b)

FSub(a, b) == FAdd(a, FNeg(b))

FMul(a, b) ==
    IF IsNaN(a) \/ IsNaN(b) THEN NaN
    ELSE IF IsInf(a) \/ IsInf(b)
         THEN (IF a = 0 \/ b = 0 THEN NaN ELSE SignedInf(Sgn(a) * Sgn(b)))
    ELSE Sat(TDiv(a * b, Scale))

FDiv(a, b) ==
    IF IsNaN(a) \/ IsNaN(b) THEN NaN
    ELSE IF IsInf(a) THEN (IF IsInf(b) THEN NaN
                           ELSE IF b = 0 THEN a
                           ELSE SignedInf(Sgn(a) * Sgn(b)))
    ELSE IF IsInf(b) THEN 0
    ELSE IF b = 0 THEN (IF a = 0 THEN NaN ELSE SignedInf(Sgn(a)))
    ELSE Sat(TDiv(a * Scale, b))

FAbs(a) == IF IsNaN(a) THEN NaN ELSE IAbs(a)

\* 0.5*a (exact in binary floating point, rounded on the grid)
FHalf(a) == IF isfinite(a) THEN TDiv(a, 2) ELSE a

FSq(a) == FMul(a, a)

RECURSIVE ISqrtFrom(_, _)
ISqrtFrom(n, r) == IF (r + 1) * (r + 1) > n THEN r ELSE ISqrtFrom(n, r + 1)
\* floor of the integer square root
ISqrt(n) == ISqrtFrom(n, 0)

FSqrt(a) ==
    IF IsNaN(a) \/ a < 0 THEN NaN
    ELSE IF a = PInf THEN PInf
    ELSE ISqrt(a * Scale)

FMax(a, b) == IF IsNaN(a) \/ IsNaN(b) THEN NaN ELSE IF a >= b THEN a ELSE b
FMin(a, b) == IF IsNaN(a) \/ IsNaN(b) THEN NaN ELSE IF a <= b THEN a ELSE b

\* N.clip(a, lo, hi) of one element: minimum(maximum(a, lo), hi)
FClip(a, lo, hi) == FMin(FMax(a, lo), hi)

\* e on the grid
FE == (2718 * Scale) \div 1000

RECURSIVE PowUp(_, _, _)
\* acc * b**n, stopping where the product no longer changes
PowUp(b, n, acc) ==
    IF n = 0 \/ acc = 0 \/ ~isfinite(acc) THEN acc
    ELSE PowUp(b, n - 1, FMul(acc, b))

\* b**x for a base b that is 0 or at least 2, taken at the whole part of the
\* exponent x
FPow(b, x) ==
    IF IsNaN(x) THEN NaN
    ELSE IF x = PInf THEN (IF b = 0 THEN 0 ELSE PInf)
    ELSE IF x = NInf THEN (IF b = 0 THEN PInf ELSE 0)
    ELSE LET n == TDiv(x, Scale)
         IN  IF n >= 0 THEN PowUp(b, n, F(1))
             ELSE FDiv(F(1), PowUp(b, 0 - n, F(1)))

RECURSIVE LogUp(_, _, _, _)
\* the greatest k with b**k <= x, for x >= 1, counting from acc = b**k
LogUp(b, x, k, acc) ==
    IF FMul(acc, b) > x THEN k ELSE LogUp(b, x, k + 1, FMul(acc, b))

RECURSIVE LogDown(_, _, _)
\* the least k with x * b**k >= 1, for 0 < x < 1
LogDown(b, x, k) ==
    IF x >= F(1) THEN k ELSE LogDown(b, FMul(x, b), k + 1)

\* the logarithm of x to a base b of at least 2, rounded down to a whole
\* number
FLog(b, x) ==
    IF IsNaN(x) \/ x < 0 THEN NaN
    ELSE IF x = 0 THEN NInf
    ELSE IF x = PInf THEN PInf
    ELSE IF x >= F(1) THEN F(LogUp(b, x, 0, F(1)))
    ELSE F(0 - LogDown(b, x, 0))

\* ------------------------------------------------------------ numpy arrays

Min(a, b) == IF a <= b THEN a ELSE b
Max(a, b) == IF a >= b THEN a ELSE b

\* an optional array: None, or Some(a)
None == <<>>
Some(a) == <<a>>
\* the array of an optional array (empty for None, which no caller reads)
Arr(o) == IF o = None THEN <<>> ELSE o[1]

\* a[:n]
Take(a, n) == SubSeq(a, 1, Min(n, Len(a)))

\* numpy broadcasting of two 1-d arrays: equal lengths, or one of length 1
BOk(a, b) == Len(a) = Len(b) \/ Len(a) = 1 \/ Len(b) = 1
BLen(a, b) == IF Len(a) = 1 THEN Len(b) ELSE Len(a)
At(a, i) == IF Len(a) = 1 THEN a[1] ELSE IF i <= Len(a) THEN a[i] ELSE NaN

\* elementwise binary operation with broadcasting (callers test BOk first)
Map2(Op(_, _), a, b) == [i \in 1..BLen(a, b) |-> Op(At(a, i), At(b, i))]
\* elementwise unary operation
Map1(Op(_), a) == [i \in 1..Len(a) |-> Op(a[i])]
\* elementwise operation of an array and a scalar
MapS(Op(_, _), a, s) == [i \in 1..Len(a) |-> Op(a[i], s)]
\* elementwise operation of a scalar and an array
SMap(Op(_, _), s, a) == [i \in 1..Len(a) |-> Op(s, a[i])]

Reverse(a) == [i \in 1..Len(a) |-> a[Len(a) + 1 - i]]

\* ---------------------------------------------------------------- datasets

\* Dataset1D: data and the optional error arrays
DS(data, serr, perr, nerr) ==
    [data |-> data, serr |-> serr, perr |-> perr, nerr |-> nerr]

hasErrors(d) == d.serr # None \/ d.perr # None \/ d.nerr # None

\* the outcome of a call on one dataset: the dataset as the call left it and
\* the exception that ended the call ("none": it returned)
Ok(d) == [d |-> d, exc |-> "none"]
Raise(d, e) == [d |-> d, exc |-> e]

\* the outcome of evaluating an array expression
OkV(v) == [v |-> v, exc |-> "none"]
RaiseV(e) == [v |-> <<>>, exc |-> e]

\* one assignment `d.<field> = value`, guarded by `if present:`; evaluating the
\* value raises ValueError unless ok (the operands broadcast)
Assign(r, field, present, ok, value) ==
    IF r.exc # "none" \/ ~present THEN r
    ELSE IF ~ok THEN Raise(r.d, "ValueError")
    ELSE Ok([r.d EXCEPT ![field] = Some(value)])

\* 0.5*(getattr(d, 'perr', 0)**2 + getattr(d, 'nerr', 0)**2): the attributes
\* exist, so getattr returns None for an unset error and None**2 raises
symErr2(d) ==
    IF d.perr = None \/ d.nerr = None THEN RaiseV("TypeError")
    ELSE IF ~BOk(Arr(d.perr), Arr(d.nerr)) THEN RaiseV("ValueError")
    ELSE OkV(Map1(FHalf, Map2(FAdd, Map1(FSq, Arr(d.perr)),
                                    Map1(FSq, Arr(d.nerr)))))

\* d.serr**2, or the symmetrised squared error
err2(d) == IF d.serr # None THEN OkV(Map1(FSq, Arr(d.serr))) ELSE symErr2(d)

\* the squared fractional error: (d.serr/d.data)**2, or
\* symmetrised squared error / d.data**2
ferr2(d) ==
    IF d.serr # None
    THEN IF BOk(Arr(d.serr), d.data)
         THEN OkV(Map1(FSq, Map2(FDiv, Arr(d.serr), d.data)))
         ELSE RaiseV("ValueError")
    ELSE LET e == symErr2(d) IN
         IF e.exc # "none" THEN e
         ELSE IF ~BOk(e.v, d.data) THEN RaiseV("ValueError")
         ELSE OkV(Map2(FDiv, e.v, Map1(FSq, d.data)))

_addSubDataset(d1, d2, sub) ==
    LET minlen == Min(Len(d1.data), Len(d2.data))
        \* add/subtract data points
        a == [d1 EXCEPT !.data = IF sub
                  THEN Map2(FSub, Take(d1.data, minlen), Take(d2.data, minlen))
                  ELSE Map2(FAdd, Take(d1.data, minlen), Take(d2.data, minlen))]
        d1err == hasErrors(d1)
        d2err == hasErrors(d2)
    IN  IF d2err /\ ~d1err
        THEN \* copy errors
             Ok([a EXCEPT
                 !.serr = IF d2.serr # None
                          THEN Some(Take(Arr(d2.serr), minlen)) ELSE @,
                 !.perr = IF d2.perr # None
                          THEN Some(Take(Arr(d2.perr), minlen)) ELSE @,
                 !.nerr = IF d2.nerr # None
                          THEN Some(Take(Arr(d2.nerr), minlen)) ELSE @])
        ELSE IF d1err /\ d2err
        THEN \* square errors, add, sqrt
             LET e1 == err2(d1)
                 e2 == err2(d2)
             IN  IF e1.exc # "none" THEN Raise(a, e1.exc)
                 ELSE IF e2.exc # "none" THEN Raise(a, e2.exc)
                 ELSE IF ~BOk(Take(e1.v, minlen), Take(e2.v, minlen))
                      THEN Raise(a, "ValueError")
                 ELSE Ok([a EXCEPT
                          !.serr = Some(Map1(FSqrt,
                              Map2(FAdd, Take(e1.v, minlen), Take(e2.v, minlen)))),
                          !.perr = None,
                          !.nerr = None])
        ELSE \* only d1 has errors: existing errors kept; no errors: nothing
             Ok(a)

_multiplyDatasetScalar(ds, val) ==
    Ok([data |-> MapS(FMul, ds.data, val),
        serr |-> IF ds.serr # None THEN Some(MapS(FMul, Arr(ds.serr), val)) ELSE None,
        perr |-> IF ds.perr # None THEN Some(MapS(FMul, Arr(ds.perr), val)) ELSE None,
        nerr |-> IF ds.nerr # None THEN Some(MapS(FMul, Arr(ds.nerr), val)) ELSE None])

\* the last statement of _multiplyDatasetDataset and _divideDatasetDataset:
\* d1.data = value, unless an exception ended the call before it
SetData(r, value) ==
    IF r.exc # "none" THEN r ELSE Ok([r.d EXCEPT !.data = value])

\* the "both have errors" branch of multiply and divide: result is the array
\* the combined fractional error is scaled by (|d1*d2| or |ratio|)
combineFrac(d1, d2, minlen, result) ==
    LET f1 == ferr2(d1)
        f2 == ferr2(d2)
    IN  IF f1.exc # "none" THEN Raise(d1, f1.exc)
        ELSE IF f2.exc # "none" THEN Raise(d1, f2.exc)
        ELSE IF ~BOk(Take(f1.v, minlen), Take(f2.v, minlen))
             THEN Raise(d1, "ValueError")
        ELSE LET s == Map1(FSqrt, Map2(FAdd, Take(f1.v, minlen), Take(f2.v, minlen)))
             IN  IF ~BOk(s, result) THEN Raise(d1, "ValueError")
                 ELSE Ok([d1 EXCEPT !.serr = Some(Map2(FMul, s, Map1(FAbs, result))),
                                    !.perr = None,
                                    !.nerr = None])

_multiplyDatasetDataset(d1, d2) ==
    LET minlen == Min(Len(d1.data), Len(d2.data))
        d1err == hasErrors(d1)
        d2err == hasErrors(d2)
        prod == Map2(FMul, Take(d1.data, minlen), Take(d2.data, minlen))
        r == IF d2err /\ ~d1err
             THEN LET d1av == Map1(FAbs, Take(d1.data, minlen))
                      s == Take(Arr(d2.serr), minlen)
                      p == Take(Arr(d2.perr), minlen)
                      n == Take(Arr(d2.nerr), minlen)
                      r1 == Assign(Ok(d1), "serr", d2.serr # None,
                                   BOk(s, d1av), Map2(FMul, s, d1av))
                      r2 == Assign(r1, "perr", d2.perr # None,
                                   BOk(p, d1av), Map2(FMul, p, d1av))
                  IN  Assign(r2, "nerr", d2.nerr # None,
                             BOk(n, d1av), Map2(FMul, n, d1av))
             ELSE IF d1err /\ ~d2err
             THEN \* the tests read d2's errors, which are all unset here
                  LET d2av == Map1(FAbs, Take(d2.data, minlen))
                      s == Take(Arr(d1.serr), minlen)
                      p == Take(Arr(d1.perr), minlen)
                      n == Take(Arr(d1.nerr), minlen)
                      r1 == Assign(Ok(d1), "serr", d2.serr # None,
                                   BOk(s, d2av), Map2(FMul, s, d2av))
                      r2 == Assign(r1, "perr", d2.perr # None,
                                   BOk(p, d2av), Map2(FMul, p, d2av))
                  IN  Assign(r2, "nerr", d2.nerr # None,
                             BOk(n, d2av), Map2(FMul, n, d2av))
             ELSE IF d1err /\ d2err
             THEN combineFrac(d1, d2, minlen, prod)
             ELSE Ok(d1)
    IN  \* multiply data points
        SetData(r, prod)

_divideDatasetDataset(d1, d2) ==
    LET minlen == Min(Len(d1.data), Len(d2.data))
        ratio == Map2(FDiv, Take(d1.data, minlen), Take(d2.data, minlen))
        d1err == hasErrors(d1)
        d2err == hasErrors(d2)
        r == IF d2err /\ ~d1err
             THEN \* copy fractional error: every branch assigns d1.serr
                  LET aratiodiv == Map1(FAbs, Map2(FDiv, ratio, Take(d2.data, minlen)))
                      s == Take(Arr(d2.serr), minlen)
                      p == Take(Arr(d2.perr), minlen)
                      n == Take(Arr(d2.nerr), minlen)
                      r1 == Assign(Ok(d1), "serr", d2.serr # None,
                                   BOk(aratiodiv, s), Map2(FMul, aratiodiv, s))
                      r2 == Assign(r1, "serr", d2.perr # None,
                                   BOk(aratiodiv, p), Map2(FMul, aratiodiv, p))
                  IN  Assign(r2, "serr", d2.nerr # None,
                             BOk(aratiodiv, n), Map2(FMul, aratiodiv, n))
             ELSE IF d1err /\ ~d2err
             THEN \* the tests read d2's errors, which are all unset here
                  LET d2av == Map1(FAbs, Take(d2.data, minlen))
                      s == Take(Arr(d1.serr), minlen)
                      p == Take(Arr(d1.perr), minlen)
                      n == Take(Arr(d1.nerr), minlen)
                      r1 == Assign(Ok(d1), "serr", d2.serr # None,
                                   BOk(s, d2av), Map2(FDiv, s, d2av))
                      r2 == Assign(r1, "perr", d2.perr # None,
                                   BOk(p, d2av), Map2(FDiv, p, d2av))
                  IN  Assign(r2, "nerr", d2.nerr # None,
                             BOk(n, d2av), Map2(FDiv, n, d2av))
             ELSE IF d1err /\ d2err
             THEN combineFrac(d1, d2, minlen, ratio)
             ELSE Ok(d1)
    IN  \* the divided points
        SetData(r, ratio)

\* ------------------------------------------------------------- reductions

RECURSIVE SumTo(_, _)
\* a[0] + ... + a[n-1]
SumTo(a, n) == IF n = 0 THEN 0 ELSE FAdd(SumTo(a, n - 1), a[n])

RECURSIVE MinTo(_, _)
MinTo(a, n) == IF n = 1 THEN a[1] ELSE FMin(MinTo(a, n - 1), a[n])

RECURSIVE MaxTo(_, _)
MaxTo(a, n) == IF n = 1 THEN a[1] ELSE FMax(MaxTo(a, n - 1), a[n])

\* N.sum, N.min, N.max, N.mean, N.std of a non-empty array
Nsum(a) == SumTo(a, Len(a))
Nmin(a) == MinTo(a, Len(a))
Nmax(a) == MaxTo(a, Len(a))
Nmean(a) == FDiv(Nsum(a), F(Len(a)))
Nstd(a) == FSqrt(Nmean(Map1(FSq, Map1(FAbs, MapS(FSub, a, Nmean(a))))))

\* the function a reduction transform passes to _subfn or _divfn
Reduce(fn, a) ==
    CASE fn = "min" -> Nmin(a)
      [] fn = "max" -> Nmax(a)
      [] fn = "mean" -> Nmean(a)
      [] fn = "std" -> Nstd(a)
      [] fn = "sum" -> Nsum(a)

\* data[N.isfinite(data)]
Finite(a) == SelectSeq(a, isfinite)

\* N.cumsum
Ncumsum(a) == [i \in 1..Len(a) |-> SumTo(a, i)]

\* calccum of _cumsum: reverse, zero the non-finite values, sum, reverse back
calccum(v, reverse) ==
    LET v1 == IF reverse THEN Reverse(v) ELSE v
        v2 == [i \in 1..Len(v1) |-> IF isfinite(v1[i]) THEN v1[i] ELSE 0]
        c == Ncumsum(v2)
    IN  IF reverse THEN Reverse(c) ELSE c

\* _cumsum without the minus sign of the new nerr
_cumsum_nerrpositive(dataset, reverse) ==
    Ok([data |-> calccum(dataset.data, reverse),
        serr |-> IF dataset.serr # None
                 THEN Some(Map1(FSqrt, calccum(Map1(FSq, Arr(dataset.serr)), reverse)))
                 ELSE None,
        perr |-> IF dataset.perr # None
                 THEN Some(Map1(FSqrt, calccum(Map1(FSq, Arr(dataset.perr)), reverse)))
                 ELSE None,
        nerr |-> IF dataset.nerr # None
                 THEN Some(Map1(FSqrt,
                          calccum(Map1(FSq, Arr(dataset.nerr)), reverse)))
                 ELSE None])

_cumsum(dataset, reverse) ==
    Ok([data |-> calccum(dataset.data, reverse),
        serr |-> IF dataset.serr # None
                 THEN Some(Map1(FSqrt, calccum(Map1(FSq, Arr(dataset.serr)), reverse)))
                 ELSE None,
        perr |-> IF dataset.perr # None
                 THEN Some(Map1(FSqrt, calccum(Map1(FSq, Arr(dataset.perr)), reverse)))
                 ELSE None,
        nerr |-> IF dataset.nerr # None
                 THEN Some(Map1(FNeg, Map1(FSqrt,
                          calccum(Map1(FSq, Arr(dataset.nerr)), reverse))))
                 ELSE None])

\* _subfn taking the statistic of all the data
_subfn_alldata(ds, fn) ==
    LET findata == Finite(ds.data)
    IN  IF Len(findata) > 0
        THEN Ok([ds EXCEPT !.data = MapS(FSub, ds.data, Reduce(fn, ds.data))])
        ELSE Ok(ds)

_subfn(ds, fn) ==
    LET findata == Finite(ds.data)
    IN  IF Len(findata) > 0
        THEN Ok([ds EXCEPT !.data = MapS(FSub, ds.data, Reduce(fn, findata))])
        ELSE Ok(ds)

_divfn(ds, fn) ==
    LET findata == Finite(ds.data)
        f == IF Len(findata) > 0 THEN FDiv(F(1), Reduce(fn, findata)) ELSE F(1)
    IN  Ok([data |-> MapS(FMul, ds.data, f),
            serr |-> IF ds.serr # None THEN Some(MapS(FMul, Arr(ds.serr), f)) ELSE None,
            perr |-> IF ds.perr # None THEN Some(MapS(FMul, Arr(ds.perr), f)) ELSE None,
            nerr |-> IF ds.nerr # None THEN Some(MapS(FMul, Arr(ds.nerr), f)) ELSE None])

\* the body of NormRange
normRange(d) ==
    LET findata == Finite(d.data)
    IN  IF Len(findata) > 0
        THEN LET minv == Nmin(findata)
                 maxv == Nmax(findata)
             IN  Ok([d EXCEPT !.data = MapS(FMul, MapS(FSub, d.data, minv),
                                            FDiv(F(1), FSub(maxv, minv)))])
        ELSE Ok(d)

\* ------------------------------------------------- function apply and clip

\* the functions the model applies: x**2 (Pow with val=2), the caller's
\* function of Apply, here negation, N.log10, N.log, N.exp, 10**x, and val**x
\* of ExpV with val 0 or 2
Fun(fun, x) ==
    CASE fun = "sq" -> FSq(x)
      [] fun = "neg" -> FNeg(x)
      [] fun = "log10" -> FLog(F(10), x)
      [] fun = "log" -> FLog(FE, x)
      [] fun = "exp" -> FPow(FE, x)
      [] fun = "exp10" -> FPow(F(10), x)
      [] fun = "expv0" -> FPow(0, x)
      [] fun = "expv2" -> FPow(F(2), x)

ApplyFun(fun, a) == [i \in 1..Len(a) |-> Fun(fun, a[i])]

\* _applyFn without its last statement, ds.serr = None
_applyFn_keepserr(ds, fun) ==
    LET s == Arr(ds.serr)
        p == Arr(ds.perr)
        n == Arr(ds.nerr)
    IN  IF ds.serr # None /\ ~BOk(ds.data, s) THEN Raise(ds, "ValueError")
        ELSE IF ds.nerr # None /\ ~BOk(ds.data, n) THEN Raise(ds, "ValueError")
        ELSE IF ds.perr # None /\ ~BOk(ds.data, p) THEN Raise(ds, "ValueError")
        ELSE
        LET prange == IF ds.perr # None THEN Some(Map2(FAdd, ds.data, p))
                      ELSE IF ds.serr # None THEN Some(Map2(FAdd, ds.data, s))
                      ELSE None
            nrange == IF ds.nerr # None THEN Some(Map2(FAdd, ds.data, n))
                      ELSE IF ds.serr # None THEN Some(Map2(FSub, ds.data, s))
                      ELSE None
            data == ApplyFun(fun, ds.data)
        IN  Ok([data |-> data,
                perr |-> IF prange # None
                         THEN Some(Map2(FSub, ApplyFun(fun, Arr(prange)), data))
                         ELSE ds.perr,
                nerr |-> IF nrange # None
                         THEN Some(Map2(FSub, ApplyFun(fun, Arr(nrange)), data))
                         ELSE ds.nerr,
                serr |-> ds.serr])

_applyFn(ds, fun) ==
    LET s == Arr(ds.serr)
        p == Arr(ds.perr)
        n == Arr(ds.nerr)
    IN  IF ds.serr # None /\ ~BOk(ds.data, s) THEN Raise(ds, "ValueError")
        ELSE IF ds.nerr # None /\ ~BOk(ds.data, n) THEN Raise(ds, "ValueError")
        ELSE IF ds.perr # None /\ ~BOk(ds.data, p) THEN Raise(ds, "ValueError")
        ELSE
        LET prange == IF ds.perr # None THEN Some(Map2(FAdd, ds.data, p))
                      ELSE IF ds.serr # None THEN Some(Map2(FAdd, ds.data, s))
                      ELSE None
            nrange == IF ds.nerr # None THEN Some(Map2(FAdd, ds.data, n))
                      ELSE IF ds.serr # None THEN Some(Map2(FSub, ds.data, s))
                      ELSE None
            data == ApplyFun(fun, ds.data)
        IN  Ok([data |-> data,
                perr |-> IF prange # None
                         THEN Some(Map2(FSub, ApplyFun(fun, Arr(prange)), data))
                         ELSE ds.perr,
                nerr |-> IF nrange # None
                         THEN Some(Map2(FSub, ApplyFun(fun, Arr(nrange)), data))
                         ELSE ds.nerr,
                serr |-> None])

ClipArr(a, minv, maxv) == [i \in 1..Len(a) |-> FClip(a[i], minv, maxv)]

\* _clip_dataset taking the new nerr from the data before the clip
_clip_dataset_olddata(d, minv, maxv) ==
    LET s == Arr(d.serr)
        p == Arr(d.perr)
        n == Arr(d.nerr)
    IN  IF d.serr # None /\ ~BOk(d.data, s) THEN Raise(d, "ValueError")
        ELSE IF d.serr = None /\ d.perr # None /\ ~BOk(p, d.data)
             THEN Raise(d, "ValueError")
        ELSE IF d.serr = None /\ d.nerr # None /\ ~BOk(n, d.data)
             THEN Raise(d, "ValueError")
        ELSE
        LET prange == IF d.serr # None THEN Some(Map2(FAdd, d.data, s))
                      ELSE IF d.perr # None THEN Some(Map2(FAdd, p, d.data))
                      ELSE None
            nrange == IF d.serr # None THEN Some(Map2(FSub, d.data, s))
                      ELSE IF d.nerr # None THEN Some(Map2(FAdd, n, d.data))
                      ELSE None
            data == ClipArr(d.data, minv, maxv)
        IN  Ok([data |-> data,
                perr |-> IF prange # None
                         THEN Some(Map2(FSub, ClipArr(Arr(prange), minv, maxv), data))
                         ELSE d.perr,
                nerr |-> IF nrange # None
                         THEN Some(Map2(FSub, ClipArr(Arr(nrange), minv, maxv), d.data))
                         ELSE d.nerr,
                serr |-> None])

_clip_dataset(d, minv, maxv) ==
    LET s == Arr(d.serr)
        p == Arr(d.perr)
        n == Arr(d.nerr)
    IN  IF d.serr # None /\ ~BOk(d.data, s) THEN Raise(d, "ValueError")
        ELSE IF d.serr = None /\ d.perr # None /\ ~BOk(p, d.data)
             THEN Raise(d, "ValueError")
        ELSE IF d.serr = None /\ d.nerr # None /\ ~BOk(n, d.data)
             THEN Raise(d, "ValueError")
        ELSE
        LET prange == IF d.serr # None THEN Some(Map2(FAdd, d.data, s))
                      ELSE IF d.perr # None THEN Some(Map2(FAdd, p, d.data))
                      ELSE None
            nrange == IF d.serr # None THEN Some(Map2(FSub, d.data, s))
                      ELSE IF d.nerr # None THEN Some(Map2(FAdd, n, d.data))
                      ELSE None
            data == ClipArr(d.data, minv, maxv)
        IN  Ok([data |-> data,
                perr |-> IF prange # None
                         THEN Some(Map2(FSub, ClipArr(Arr(prange), minv, maxv), data))
                         ELSE d.perr,
                nerr |-> IF nrange # None
                         THEN Some(Map2(FSub, ClipArr(Arr(nrange), minv, maxv), data))
                         ELSE d.nerr,
                serr |-> None])

\* ------------------------------------------------------------------ slices

\* an optional index: None, or Some(i)
Idx(o) == o[1]

\* a[start:stop:step] for a non-zero step, as Python's slice.indices
PySlice(a, start, stop, step) ==
    LET n == Len(a)
        s == IF step = None THEN 1 ELSE Idx(step)
        lo == IF s > 0
              THEN (IF start = None THEN 0
                    ELSE IF Idx(start) < 0 THEN Max(Idx(start) + n, 0)
                    ELSE Min(Idx(start), n))
              ELSE (IF start = None THEN n - 1
                    ELSE IF Idx(start) < 0 THEN Max(Idx(start) + n, 0 - 1)
                    ELSE Min(Idx(start), n - 1))
        hi == IF s > 0
              THEN (IF stop = None THEN n
                    ELSE IF Idx(stop) < 0 THEN Max(Idx(stop) + n, 0)
                    ELSE Min(Idx(stop), n))
              ELSE (IF stop = None THEN 0 - 1
                    ELSE IF Idx(stop) < 0 THEN Max(Idx(stop) + n, 0 - 1)
                    ELSE Min(Idx(stop), n - 1))
        count == IF s > 0
                 THEN (IF hi > lo THEN ((hi - lo - 1) \div s) + 1 ELSE 0)
                 ELSE (IF lo > hi THEN ((lo - hi - 1) \div (0 - s)) + 1 ELSE 0)
    IN  [k \in 1..count |-> a[lo + (k - 1) * s + 1]]

\* the loop body of Thin and IndexRange: slice data and every set error
sliceDataset(d, start, stop, step) ==
    [data |-> PySlice(d.data, start, stop, step),
     serr |-> IF d.serr # None THEN Some(PySlice(Arr(d.serr), start, stop, step)) ELSE None,
     perr |-> IF d.perr # None THEN Some(PySlice(Arr(d.perr), start, stop, step)) ELSE None,
     nerr |-> IF d.nerr # None THEN Some(PySlice(Arr(d.nerr), start, stop, step)) ELSE None]

\* ------------------------------------------------------- CSV import: text

\* A token of the CSV file is a sequence of characters (strings of length 1);
\* the model's tokens use digits, letters, '+', '-', ' ', '(' and ')'.
Digits == <<"0", "1", "2", "3", "4", "5", "6", "7", "8", "9">>
IsDigit(c) == \E i \in 1..Len(Digits) : Digits[i] = c
DigitVal(c) == (CHOOSE i \in 1..Len(Digits) : Digits[i] = c) - 1
IsSpace(c) == c = " "

RECURSIVE lstrip(_)
lstrip(s) == IF s # <<>> /\ IsSpace(Head(s)) THEN lstrip(Tail(s)) ELSE s

RECURSIVE rstrip(_)
rstrip(s) ==
    IF s # <<>> /\ IsSpace(s[Len(s)]) THEN rstrip(SubSeq(s, 1, Len(s) - 1)) ELSE s

\* str.strip()
strip(s) == rstrip(lstrip(s))

RECURSIVE FirstWordLen(_)
\* length of the longest prefix of s without a space
FirstWordLen(s) ==
    IF s = <<>> \/ IsSpace(Head(s)) THEN 0 ELSE 1 + FirstWordLen(Tail(s))

RECURSIVE split(_)
\* str.split(): the words between runs of whitespace
split(s) ==
    LET t == lstrip(s)
        n == FirstWordLen(t)
    IN  IF t = <<>> THEN <<>>
        ELSE <<SubSeq(t, 1, n)>> \o split(SubSeq(t, n + 1, Len(t)))

RECURSIVE DigitsVal(_)
\* the number a non-empty sequence of digits writes
DigitsVal(s) ==
    IF s = <<>> THEN 0
    ELSE 10 * DigitsVal(SubSeq(s, 1, Len(s) - 1)) + DigitVal(s[Len(s)])

AllDigits(s) == s # <<>> /\ \A i \in 1..Len(s) : IsDigit(s[i])

\* the token without the sign float() accepts in front of a number
Unsigned(t) == IF t # <<>> /\ Head(t) \in {"+", "-"} THEN Tail(t) ELSE t

\* float(col) returns: surrounding whitespace dropped, then an optional sign
\* and digits, or "inf" or "nan" (the tokens of the model have no '.', no
\* exponent and no upper case); any other token raises ValueError
floatOk(col) ==
    LET u == Unsigned(strip(col))
    IN  AllDigits(u) \/ u = <<"i", "n", "f">> \/ u = <<"n", "a", "n">>

\* the value float(col) returns
float(col) ==
    LET t == strip(col)
        u == Unsigned(t)
        neg == Head(t) = "-"
    IN  IF u = <<"n", "a", "n">> THEN NaN
        ELSE IF u = <<"i", "n", "f">> THEN (IF neg THEN NInf ELSE PInf)
        ELSE IF neg THEN F(0 - DigitsVal(u)) ELSE F(DigitsVal(u))

\* position of the first '-' of s, 0 if there is none
DashAt(s) ==
    IF \E i \in 1..Len(s) : s[i] = "-"
    THEN CHOOSE i \in 1..Len(s) : s[i] = "-" /\ \A j \in 1..(i - 1) : s[j] # "-"
    ELSE 0

\* the fields year, month, day of a token written Y-M-D, <<>> for another
DateFields(col) ==
    LET i == DashAt(col)
        rest == SubSeq(col, i + 1, Len(col))
        j == DashAt(rest)
        y == SubSeq(col, 1, i - 1)
        m == SubSeq(rest, 1, j - 1)
        d == SubSeq(rest, j + 1, Len(rest))
    IN  IF i > 0 /\ j > 0 /\ AllDigits(y) /\ AllDigits(m) /\ AllDigits(d)
        THEN <<DigitsVal(y), DigitsVal(m), DigitsVal(d)>>
        ELSE <<>>

\* utils.dateStringToDate(col) returns for a token written Y-M-D and raises
\* ValueError for any other
dateOk(col) == DateFields(col) # <<>>

\* the number utils.dateStringToDate(col) returns, counted in days
dateStringToDate(col) ==
    LET f == DateFields(col) IN F((f[1] * 12 + f[2]) * 31 + f[3])

RECURSIVE Decimal(_)
\* '%i' % n for n >= 0
Decimal(n) ==
    IF n < 10 THEN <<Digits[n + 1]>> ELSE Decimal(n \div 10) \o <<Digits[(n % 10) + 1]>>

\* ord(c) of the characters of the model
Ord(c) ==
    CASE c = " " -> 32 [] c = "(" -> 40 [] c = ")" -> 41 [] c = "+" -> 43
      [] c = "-" -> 45
      [] IsDigit(c) -> 48 + DigitVal(c)
      [] c = "a" -> 97 [] c = "c" -> 99 [] c = "d" -> 100 [] c = "e" -> 101
      [] c = "l" -> 108 [] c = "o" -> 111 [] c = "p" -> 112 [] c = "q" -> 113
      [] c = "r" -> 114 [] c = "s" -> 115 [] c = "t" -> 116 [] c = "w" -> 119
      [] c = "x" -> 120

RECURSIVE StrLess(_, _)
\* a < b for two Python strings
StrLess(a, b) ==
    IF b = <<>> THEN FALSE
    ELSE IF a = <<>> THEN TRUE
    ELSE IF Head(a) # Head(b) THEN Ord(Head(a)) < Ord(Head(b))
    ELSE StrLess(Tail(a), Tail(b))

RECURSIVE sorted(_)
\* list.sort() of a list of distinct strings, given as a set
sorted(S) ==
    IF S = {} THEN <<>>
    ELSE LET m == CHOOSE a \in S : \A b \in S \ {a} : StrLess(a, b)
         IN  <<m>> \o sorted(S \ {m})

\* ----------------------------------------------------- CSV import: reader

\* a Python dict is a function; d[k] = v on it
EmptyDict == <<>>
Put(d, k, v) == (k :> v) @@ d

\* _FileReaderCols: the lines of the iteration are the rows of the file
_FileReaderCols(rows) == rows

RECURSIVE MaxLength(_)
MaxLength(rows) ==
    IF rows = <<>> THEN 0 ELSE Max(Len(Head(rows)), MaxLength(Tail(rows)))

\* _FileReaderRows returning the rows of the file, as _FileReaderCols does
_FileReaderRows_asrows(rows) == rows

\* _FileReaderRows: the lines of the iteration are the columns of the file,
\* a row that is too short giving ''
_FileReaderRows(rows) ==
    [c \in 1..MaxLength(rows) |->
        [r \in 1..Len(rows) |-> IF c > Len(rows[r]) THEN <<>> ELSE rows[r][c]]]

\* the iterator readData makes for the file
Lines(rows, readrows) ==
    IF readrows THEN _FileReaderRows(rows) ELSE _FileReaderCols(rows)

\* ReadCSV.__init__
ReadCSV(readrows, prefix, suffix) ==
    [readrows |-> readrows, prefix |-> prefix, suffix |-> suffix,
     data |-> EmptyDict,
     colnames |-> EmptyDict, coltypes |-> <<>>, nametypes |-> EmptyDict]

_generateName(self, column) ==
    self.prefix \o (IF self.readrows THEN <<"r", "o", "w">> ELSE <<"c", "o", "l">>)
        \o Decimal(column + 1) \o self.suffix

ErrorSuffixes == {<<"+">>, <<"-">>, <<"+", "-">>}

RECURSIVE PrevValid(_, _)
\* the loop of _getNameAndColType: the nearest column at or before prevcol
\* whose name does not end in '+' or '-' (col = -1: none); looking up a
\* column that has no name yet raises KeyError
PrevValid(self, prevcol) ==
    IF prevcol < 0 THEN [exc |-> "none", col |-> 0 - 1]
    ELSE IF prevcol \notin DOMAIN self.colnames THEN [exc |-> "KeyError", col |-> 0 - 1]
    ELSE LET n == self.colnames[prevcol]
         IN  IF Len(n) > 0 /\ n[Len(n)] \notin {"+", "-"}
             THEN [exc |-> "none", col |-> prevcol]
             ELSE PrevValid(self, prevcol - 1)

\* the type a header directive's last word stands for
TypeOf(coltype) ==
    IF coltype \in {<<"(", "s", "t", "r", "i", "n", "g", ")">>, <<"(", "t", "e", "x", "t", ")">>}
    THEN "string"
    ELSE IF coltype \in {<<"(", "d", "a", "t", "e", ")">>, <<"(", "t", "i", "m", "e", ")">>}
    THEN "date"
    ELSE "float"

_getNameAndColType(self, colnum, colval) ==
    LET s == split(strip(colval))
        name == s[1]
        coltype == s[Len(s)]
        prev == PrevValid(self, colnum - 1)
    IN  IF name \in ErrorSuffixes /\ prev.exc # "none"
        THEN [exc |-> prev.exc, type |-> "", name |-> <<>>]
        ELSE IF name \in ErrorSuffixes /\ prev.col >= 0
        THEN [exc |-> "none", type |-> self.coltypes[prev.col + 1],
              name |-> self.colnames[prev.col] \o name]
        ELSE IF name \in ErrorSuffixes
        THEN [exc |-> "none", type |-> TypeOf(coltype),
              name |-> self.prefix \o _generateName(self, colnum) \o self.suffix]
        ELSE [exc |-> "none", type |-> TypeOf(coltype),
              name |-> self.prefix \o name \o self.suffix]

\* coltypes after the while loop that appends '' up to index colnum
Padded(coltypes, colnum) ==
    [i \in 1..Max(Len(coltypes), colnum + 1) |->
        IF i <= Len(coltypes) THEN coltypes[i] ELSE ""]

_setNameAndType(self, colnum, colname, coltype) ==
    [self EXCEPT
        !.coltypes = [Padded(self.coltypes, colnum) EXCEPT ![colnum + 1] = coltype],
        !.nametypes = Put(self.nametypes, colname, coltype),
        !.colnames = Put(self.colnames, colnum, colname),
        !.data = IF colname \in DOMAIN self.data THEN self.data
                 ELSE Put(self.data, colname, <<>>)]

\* the type under which readData converts an item of column colnum
CType(self, colnum) ==
    IF colnum >= Len(self.coltypes) \/ self.coltypes[colnum + 1] = ""
    THEN "float"
    ELSE self.coltypes[colnum + 1]

\* the conversion of col under ctype returns (it raises ValueError otherwise)
ConvOk(ctype, col) ==
    CASE ctype = "float" -> floatOk(col)
      [] ctype = "date" -> dateOk(col)
      [] ctype = "string" -> TRUE

\* the converted value
Conv(ctype, col) ==
    CASE ctype = "float" -> float(col)
      [] ctype = "date" -> dateStringToDate(col)
      [] ctype = "string" -> col

\* readDataItem taking no header directive for a column that has a name
readDataItem_sticky(self, colnum, col) ==
    LET ctype == CType(self, colnum) IN
    IF ~ConvOk(ctype, col)
    THEN IF strip(col) = <<>> \/ colnum \in DOMAIN self.colnames
         THEN [self |-> self, exc |-> "none"]
         ELSE LET r == _getNameAndColType(self, colnum, strip(col))
              IN  IF r.exc # "none" THEN [self |-> self, exc |-> r.exc]
                  ELSE [self |-> _setNameAndType(self, colnum, r.name, r.type),
                        exc |-> "none"]
    ELSE LET named == IF colnum \notin DOMAIN self.colnames
                      THEN _setNameAndType(self, colnum,
                                           _generateName(self, colnum), "float")
                      ELSE self
             name == named.colnames[colnum]
         IN  [self |-> [named EXCEPT
                           !.data[name] = Append(@, Conv(ctype, col))],
              exc |-> "none"]

\* the body of readData's loop over the items of a line, for item col of
\* column colnum
readDataItem(self, colnum, col) ==
    LET ctype == CType(self, colnum) IN
    IF ~ConvOk(ctype, col)
    THEN IF strip(col) = <<>>
         THEN [self |-> self, exc |-> "none"]
         ELSE LET r == _getNameAndColType(self, colnum, strip(col))
              IN  IF r.exc # "none" THEN [self |-> self, exc |-> r.exc]
                  ELSE [self |-> _setNameAndType(self, colnum, r.name, r.type),
                        exc |-> "none"]
    ELSE LET named == IF colnum \notin DOMAIN self.colnames
                      THEN _setNameAndType(self, colnum,
                                           _generateName(self, colnum), "float")
                      ELSE self
             name == named.colnames[colnum]
         IN  [self |-> [named EXCEPT
                           !.data[name] = Append(@, Conv(ctype, col))],
              exc |-> "none"]

\* the names and types readData starts with
readDataReset(self) ==
    [self EXCEPT !.colnames = EmptyDict, !.coltypes = <<>>, !.nametypes = EmptyDict]

RECURSIVE readDataFrom(_, _, _, _)
\* readData from item ci of line li on, to the end of the lines or to the
\* first exception
readDataFrom(self, lines, li, ci) ==
    IF li > Len(lines) THEN [self |-> self, exc |-> "none"]
    ELSE IF ci > Len(lines[li]) THEN readDataFrom(self, lines, li + 1, 1)
    ELSE LET r == readDataItem(self, ci - 1, lines[li][ci])
         IN  IF r.exc # "none" THEN r
             ELSE readDataFrom(r.self, lines, li, ci + 1)

\* a whole readData call on the file rows
readData(self, rows) ==
    readDataFrom(readDataReset(self), Lines(rows, self.readrows), 1, 1)

\* datasets.Dataset and datasets.DatasetText as the document stores them
Dataset(data, serr, perr, nerr) ==
    [kind |-> "Dataset", data |-> data, serr |-> serr, perr |-> perr, nerr |-> nerr]
DatasetText(data) ==
    [kind |-> "DatasetText", data |-> data, serr |-> None, perr |-> None, nerr |-> None]

\* self.data.get(name, None)
Get(d, name) == IF name \in DOMAIN d THEN Some(d[name]) ELSE None

\* the names setData does not skip
IsErrorName(name) == name[Len(name)] \in {"+", "-"}
\* BaseNames that skips no name
BaseNames_all(self) == DOMAIN self.data
BaseNames(self) == {name \in DOMAIN self.data : ~IsErrorName(name)}

\* the dataset setData makes for name
MakeDataset(self, name) ==
    IF self.nametypes[name] = "string"
    THEN DatasetText(self.data[name])
    ELSE Dataset(self.data[name],
                 Get(self.data, name \o <<"+", "-">>),
                 Get(self.data, name \o <<"+">>),
                 Get(self.data, name \o <<"-">>))

\* the document after setData has set the datasets of the names in S
Committed(doc, self, S) ==
    [name \in DOMAIN doc \cup S |->
        IF name \in S THEN MakeDataset(self, name) ELSE doc[name]]

\* ------------------------------------------------------------------- state

\* the datasets of a run: x and y fill slots 0 and 1 of the slot array; v is
\* a dataset of the document that the caller passes as the operand val
DsIds == {"x", "y", "v"}

\* the slot array dss (slots 2, 3 and 4 are None)
NoDs == ""
dss == <<"x", "y", NoDs, NoDs, NoDs>>

\* code.lower() on the codes the model passes
Lower(code) ==
    CASE code = "X" -> "x"
      [] code = "Y" -> "y"
      [] code = "L" -> "l"
      [] code = "Label" -> "label"
      [] code = "S" -> "s"
      [] code = "SIZE" -> "size"
      [] code = "C" -> "c"
      [] code = "Color" -> "color"
      [] code = "LABEL" -> "label"
      [] code = "Size" -> "size"
      [] code = "COLOR" -> "color"
      [] OTHER -> code

CodeIdx ==
    [x |-> 0, y |-> 1, l |-> 2, label |-> 2, s |-> 3, size |-> 3,
     c |-> 4, color |-> 4]

\* the index of a role code; -1 stands for the ValueError of an unknown code
dsCodeToIdx(code) ==
    IF Lower(code) \in DOMAIN CodeIdx THEN CodeIdx[Lower(code)] ELSE 0 - 1

\* the role codes the transforms are invoked with: valid, and their slot filled
OutCodes == {"x", "Y"}

\* dss[dsCodeToIdx(outds)]
Slot(outds) == dss[dsCodeToIdx(outds) + 1]

\* scalar operands
Scalars == {F(0), F(2)}

\* --------------------------------------------------------- transform forms

\* a Python value passed as a role code: its type, its text, and the number
\* of its items if it is a tuple
Str(s) == [type |-> "str", str |-> s, len |-> 0]
PyInt(s) == [type |-> "int", str |-> s, len |-> 0]
PyNone == [type |-> "NoneType", str |-> "None", len |-> 0]
Tuple(s, n) == [type |-> "tuple", str |-> s, len |-> n]

\* dsCodeToIdx of any value. A value that is no string has no lower() and
\* takes the except branch of an unknown code; there '...%s' % code raises
\* TypeError if code is a tuple of other than one item
dsCodeToIdxAny(code) ==
    IF code.type = "str" /\ dsCodeToIdx(code.str) >= 0
    THEN OkV(dsCodeToIdx(code.str))
    ELSE IF code.type = "tuple" /\ code.len # 1 THEN RaiseV("TypeError")
    ELSE RaiseV("ValueError")

\* dss[dsCodeToIdx(outds)] as a transform uses it: the id of the dataset, or
\* the exception of the lookup, or the AttributeError of using None
Target(outds) ==
    LET idx == dsCodeToIdxAny(outds)
    IN  IF idx.exc # "none" THEN [t |-> NoDs, exc |-> idx.exc]
        ELSE IF dss[idx.v + 1] = NoDs THEN [t |-> NoDs, exc |-> "AttributeError"]
        ELSE [t |-> dss[idx.v + 1], exc |-> "none"]

\* the operand val of a transform: a dataset of the document or a number
DsVal(id) == [isds |-> TRUE, id |-> id, num |-> 0]
Scalar(s) == [isds |-> FALSE, id |-> "", num |-> s]
NoVal == [isds |-> FALSE, id |-> "", num |-> 0]
isDataset1D(v) == v.isds

\* the datasets d after a call that left dataset t as the outcome r says
OnSlot(d, t, r) == [d |-> [d EXCEPT ![t] = r.d], exc |-> r.exc]

\* _subfrom on dataset t: with a dataset operand the call is
\* _addSubDataset(val, ds), which rewrites val
_subfrom(d, t, val) ==
    IF isDataset1D(val)
    THEN OnSlot(d, val.id, _addSubDataset(d[val.id], d[t], TRUE))
    ELSE OnSlot(d, t, Ok([d[t] EXCEPT !.data = SMap(FSub, val.num, @)]))

\* lambda x: val**x of ExpV, for val 0 or 2
ExpVFun(val) == IF val = 0 THEN "expv0" ELSE "expv2"

\* lambda x: x**val of Pow, for val 2
PowFun(val) == "sq"

addAdd(d, outds, val) ==
    LET g == Target(outds) IN
    IF g.exc # "none" THEN Raise(d, g.exc)
    ELSE IF isDataset1D(val)
         THEN OnSlot(d, g.t, _addSubDataset(d[g.t], d[val.id], FALSE))
         ELSE OnSlot(d, g.t, Ok([d[g.t] EXCEPT !.data = MapS(FAdd, @, val.num)]))

addCumSum(d, outds, reverse) ==
    LET g == Target(outds) IN
    IF g.exc # "none" THEN Raise(d, g.exc)
    ELSE OnSlot(d, g.t, _cumsum(d[g.t], reverse))

subSub(d, outds, val) ==
    LET g == Target(outds) IN
    IF g.exc # "none" THEN Raise(d, g.exc)
    ELSE IF isDataset1D(val)
         THEN OnSlot(d, g.t, _addSubDataset(d[g.t], d[val.id], TRUE))
         ELSE OnSlot(d, g.t, Ok([d[g.t] EXCEPT !.data = MapS(FSub, @, val.num)]))

subSubMin(d, outds) ==
    LET g == Target(outds) IN
    IF g.exc # "none" THEN Raise(d, g.exc)
    ELSE OnSlot(d, g.t, _subfn(d[g.t], "min"))

subSubMax(d, outds) ==
    LET g == Target(outds) IN
    IF g.exc # "none" THEN Raise(d, g.exc)
    ELSE OnSlot(d, g.t, _subfn(d[g.t], "max"))

subSubMean(d, outds) ==
    LET g == Target(outds) IN
    IF g.exc # "none" THEN Raise(d, g.exc)
    ELSE OnSlot(d, g.t, _subfn(d[g.t], "mean"))

subSubFrom(d, outds, val) ==
    LET g == Target(outds) IN
    IF g.exc # "none" THEN Raise(d, g.exc)
    ELSE _subfrom(d, g.t, val)

arithMul(d, outds, val) ==
    LET g == Target(outds) IN
    IF g.exc # "none" THEN Raise(d, g.exc)
    ELSE IF isDataset1D(val)
         THEN OnSlot(d, g.t, _multiplyDatasetDataset(d[g.t], d[val.id]))
         ELSE OnSlot(d, g.t, _multiplyDatasetScalar(d[g.t], val.num))

\* 1./val of a zero scalar raises ZeroDivisionError once the code is looked up
\* and before the slot is used
divDiv(d, outds, val) ==
    LET g == Target(outds) IN
    IF g.exc = "ValueError" \/ g.exc = "TypeError" THEN Raise(d, g.exc)
    ELSE IF ~isDataset1D(val) /\ val.num = 0 THEN Raise(d, "ZeroDivisionError")
    ELSE IF g.exc # "none" THEN Raise(d, g.exc)
    ELSE IF isDataset1D(val)
         THEN OnSlot(d, g.t, _divideDatasetDataset(d[g.t], d[val.id]))
         ELSE OnSlot(d, g.t, _multiplyDatasetScalar(d[g.t], FDiv(F(1), val.num)))

divDivMax(d, outds) ==
    LET g == Target(outds) IN
    IF g.exc # "none" THEN Raise(d, g.exc)
    ELSE OnSlot(d, g.t, _divfn(d[g.t], "max"))

divDivMean(d, outds) ==
    LET g == Target(outds) IN
    IF g.exc # "none" THEN Raise(d, g.exc)
    ELSE OnSlot(d, g.t, _divfn(d[g.t], "mean"))

divDivStd(d, outds) ==
    LET g == Target(outds) IN
    IF g.exc # "none" THEN Raise(d, g.exc)
    ELSE OnSlot(d, g.t, _divfn(d[g.t], "std"))

divDivSum(d, outds) ==
    LET g == Target(outds) IN
    IF g.exc # "none" THEN Raise(d, g.exc)
    ELSE OnSlot(d, g.t, _divfn(d[g.t], "sum"))

rangeNormRange(d, outds) ==
    LET g == Target(outds) IN
    IF g.exc # "none" THEN Raise(d, g.exc)
    ELSE OnSlot(d, g.t, normRange(d[g.t]))

logLog10(d, outds) ==
    LET g == Target(outds) IN
    IF g.exc # "none" THEN Raise(d, g.exc)
    ELSE OnSlot(d, g.t, _applyFn(d[g.t], "log10"))

logLog(d, outds) ==
    LET g == Target(outds) IN
    IF g.exc # "none" THEN Raise(d, g.exc)
    ELSE OnSlot(d, g.t, _applyFn(d[g.t], "log"))

logExp(d, outds) ==
    LET g == Target(outds) IN
    IF g.exc # "none" THEN Raise(d, g.exc)
    ELSE OnSlot(d, g.t, _applyFn(d[g.t], "exp"))

logExp10(d, outds) ==
    LET g == Target(outds) IN
    IF g.exc # "none" THEN Raise(d, g.exc)
    ELSE OnSlot(d, g.t, _applyFn(d[g.t], "exp10"))

\* ExpV(val, outds): the value comes first
logExpV(d, val, outds) ==
    LET g == Target(outds) IN
    IF g.exc # "none" THEN Raise(d, g.exc)
    ELSE OnSlot(d, g.t, _applyFn(d[g.t], ExpVFun(val)))

\* the factory of Pow is the second function named mulPowX (line 769)
mulPow(d, outds, val) ==
    LET g == Target(outds) IN
    IF g.exc # "none" THEN Raise(d, g.exc)
    ELSE OnSlot(d, g.t, _applyFn(d[g.t], PowFun(val)))

applyApply(d, outds, fn) ==
    LET g == Target(outds) IN
    IF g.exc # "none" THEN Raise(d, g.exc)
    ELSE OnSlot(d, g.t, _applyFn(d[g.t], fn))

\* the factories of Clip, ClipX and ClipY are all named rangeClip
rangeClip(d, outds, minv, maxv) ==
    LET g == Target(outds) IN
    IF g.exc # "none" THEN Raise(d, g.exc)
    ELSE OnSlot(d, g.t, _clip_dataset(d[g.t], minv, maxv))

\* transformpluginregistry[name](dss) called with the role code outds, the
\* operand val and the other arguments args
Generic(name, d, outds, val, args) ==
    CASE name = "Add" -> addAdd(d, outds, val)
      [] name = "CumSum" -> addCumSum(d, outds, args[1])
      [] name = "Sub" -> subSub(d, outds, val)
      [] name = "SubMin" -> subSubMin(d, outds)
      [] name = "SubMax" -> subSubMax(d, outds)
      [] name = "SubMean" -> subSubMean(d, outds)
      [] name = "SubFrom" -> subSubFrom(d, outds, val)
      [] name = "Mul" -> arithMul(d, outds, val)
      [] name = "Div" -> divDiv(d, outds, val)
      [] name = "DivMax" -> divDivMax(d, outds)
      [] name = "DivMean" -> divDivMean(d, outds)
      [] name = "DivStd" -> divDivStd(d, outds)
      [] name = "DivSum" -> divDivSum(d, outds)
      [] name = "NormRange" -> rangeNormRange(d, outds)
      [] name = "Log10" -> logLog10(d, outds)
      [] name = "Log" -> logLog(d, outds)
      [] name = "Exp" -> logExp(d, outds)
      [] name = "Exp10" -> logExp10(d, outds)
      [] name = "ExpV" -> logExpV(d, args[1], outds)
      [] name = "Pow" -> mulPow(d, outds, args[1])
      [] name = "Apply" -> applyApply(d, outds, args[1])
      [] name = "Clip" -> rangeClip(d, outds, args[1], args[2])

VARIABLES
    ds,     \* dataset id -> Dataset1D
    pre,    \* the datasets as they were when the last invocation began
    last,   \* the last invocation: transform, slot dataset, operand, arguments,
            \* and the exception it ended with ("none": it returned)
    steps,  \* number of invocations so far
    csvfile,   \* the rows of the CSV file, each a sequence of tokens
    reader,    \* the attributes of the ReadCSV object
    run,       \* where readData is: phase, position in the file, reads so far
    document   \* the datasets setData has set, and the names it returned

vars == <<ds, pre, last, steps, csvfile, reader, run, document>>

\* ----------------------------------------------------------- initial states

\* no item read yet
NoItem == [colnum |-> 0 - 1, col |-> <<>>]

\* readData has not been called
NewRun ==
    [phase |-> "new", li |-> 1, ci |-> 1, reads |-> 0,
     fixed |-> EmptyDict, item |-> NoItem, before |-> ReadCSV(FALSE, <<>>, <<>>),
     autonamed |-> FALSE]

\* the document before setData
NoDocument ==
    [sets |-> EmptyDict, dsnames |-> <<>>, exc |-> "none", called |-> FALSE,
     reads |-> 0]


DataA == <<F(1), F(2), F(3)>>
DataB == <<F(4), F(5), F(6)>>
DataC == <<F(0 - 5), F(5), F(15)>>
DataZ == <<F(0), F(2), F(0 - 3)>>
ErrA == <<F(3), F(3), F(3)>>
ErrB == <<F(4), F(4), F(4)>>

ErrKinds == {"none", "serr", "asym", "perr", "nerr"}

\* a dataset as the document holds it: every set error as long as data
MkDS(data, err, kind, len) ==
    LET d == Take(data, len)
        e == Take(err, len)
    IN  DS(d,
           IF kind = "serr" THEN Some(e) ELSE None,
           IF kind \in {"asym", "perr"} THEN Some(e) ELSE None,
           IF kind \in {"asym", "nerr"} THEN Some(Map1(FNeg, e)) ELSE None)

InitX ==
    {MkDS(DataA, ErrA, k, 3) : k \in ErrKinds}
    \cup {MkDS(DataC, ErrA, "serr", 3), MkDS(DataZ, ErrA, "asym", 3),
          MkDS(DataA, ErrA, "none", 2)}

InitY == {MkDS(DataB, ErrB, "none", 3), MkDS(DataZ, ErrB, "serr", 2)}

InitV ==
    {MkDS(DataB, ErrB, k, 2) : k \in {"none", "serr", "asym", "perr"}}
    \cup {MkDS(DataB, ErrB, "serr", 3), MkDS(DataB, ErrB, "none", 1)}

NoCall == [op |-> "", out |-> "", val |-> "", args |-> <<>>, exc |-> "none"]

Init ==
    /\ ds \in {[x |-> dx, y |-> dy, v |-> dv] : dx \in InitX, dy \in InitY, dv \in InitV}
    /\ pre = ds
    /\ last = NoCall
    /\ steps = 0
    /\ csvfile = <<>>
    /\ reader = ReadCSV(FALSE, <<>>, <<>>)
    /\ run = NewRun
    /\ document = NoDocument

\* ------------------------------------------------------------------ actions

\* one invocation of transform op: the datasets as it left them, recorded
Step(op, out, val, args, newds, exc) ==
    /\ steps < MaxSteps
    /\ ds' = newds
    /\ pre' = ds
    /\ last' = [op |-> op, out |-> out, val |-> val, args |-> args, exc |-> exc]
    /\ steps' = steps + 1
    /\ UNCHANGED <<csvfile, reader, run, document>>

\* an invocation that rewrites dataset t as the outcome r says
StepOn(op, out, val, args, t, r) ==
    Step(op, out, val, args, [ds EXCEPT ![t] = r.d], r.exc)

\* the dataset operands of an invocation whose slot dataset is t
Operands(t) == DsIds \ {t}

Add ==
    \E outds \in OutCodes :
        LET t == Slot(outds) IN
        \/ \E v \in Operands(t) :
               StepOn("Add", t, v, <<>>, t, _addSubDataset(ds[t], ds[v], FALSE))
        \/ \E s \in Scalars :
               StepOn("Add", t, "scalar", <<s>>, t,
                      Ok([ds[t] EXCEPT !.data = MapS(FAdd, @, s)]))

Sub ==
    \E outds \in OutCodes :
        LET t == Slot(outds) IN
        \/ \E v \in Operands(t) :
               StepOn("Sub", t, v, <<>>, t, _addSubDataset(ds[t], ds[v], TRUE))
        \/ \E s \in Scalars :
               StepOn("Sub", t, "scalar", <<s>>, t,
                      Ok([ds[t] EXCEPT !.data = MapS(FSub, @, s)]))

\* _subfrom: with a dataset operand the call is _addSubDataset(val, ds), whose
\* first argument, the dataset it rewrites, is val
SubFrom ==
    \E outds \in OutCodes :
        LET t == Slot(outds) IN
        \/ \E v \in Operands(t) :
               StepOn("SubFrom", t, v, <<>>, v, _addSubDataset(ds[v], ds[t], TRUE))
        \/ \E s \in Scalars :
               StepOn("SubFrom", t, "scalar", <<s>>, t,
                      Ok([ds[t] EXCEPT !.data = SMap(FSub, s, @)]))

Mul ==
    \E outds \in OutCodes :
        LET t == Slot(outds) IN
        \/ \E v \in Operands(t) :
               StepOn("Mul", t, v, <<>>, t, _multiplyDatasetDataset(ds[t], ds[v]))
        \/ \E s \in Scalars :
               StepOn("Mul", t, "scalar", <<s>>, t, _multiplyDatasetScalar(ds[t], s))

\* 1./val of a zero scalar raises ZeroDivisionError before anything is written
Div ==
    \E outds \in OutCodes :
        LET t == Slot(outds) IN
        \/ \E v \in Operands(t) :
               StepOn("Div", t, v, <<>>, t, _divideDatasetDataset(ds[t], ds[v]))
        \/ \E s \in Scalars :
               StepOn("Div", t, "scalar", <<s>>, t,
                      IF s = 0 THEN Raise(ds[t], "ZeroDivisionError")
                      ELSE _multiplyDatasetScalar(ds[t], FDiv(F(1), s)))

CumSum ==
    \E outds \in OutCodes, reverse \in BOOLEAN :
        LET t == Slot(outds) IN
        StepOn("CumSum", t, "", <<IF reverse THEN 1 ELSE 0>>, t,
               _cumsum(ds[t], reverse))

SubMin ==
    \E outds \in OutCodes :
        LET t == Slot(outds) IN StepOn("SubMin", t, "", <<>>, t, _subfn(ds[t], "min"))

SubMax ==
    \E outds \in OutCodes :
        LET t == Slot(outds) IN StepOn("SubMax", t, "", <<>>, t, _subfn(ds[t], "max"))

SubMean ==
    \E outds \in OutCodes :
        LET t == Slot(outds) IN StepOn("SubMean", t, "", <<>>, t, _subfn(ds[t], "mean"))

DivMax ==
    \E outds \in OutCodes :
        LET t == Slot(outds) IN StepOn("DivMax", t, "", <<>>, t, _divfn(ds[t], "max"))

DivMean ==
    \E outds \in OutCodes :
        LET t == Slot(outds) IN StepOn("DivMean", t, "", <<>>, t, _divfn(ds[t], "mean"))

DivStd ==
    \E outds \in OutCodes :
        LET t == Slot(outds) IN StepOn("DivStd", t, "", <<>>, t, _divfn(ds[t], "std"))

DivSum ==
    \E outds \in OutCodes :
        LET t == Slot(outds) IN StepOn("DivSum", t, "", <<>>, t, _divfn(ds[t], "sum"))

NormRange ==
    \E outds \in OutCodes :
        LET t == Slot(outds) IN StepOn("NormRange", t, "", <<>>, t, normRange(ds[t]))

\* Pow(outds, val) with val = 2
Pow ==
    \E outds \in OutCodes :
        LET t == Slot(outds) IN StepOn("Pow", t, "", <<F(2)>>, t, _applyFn(ds[t], "sq"))

\* Apply(outds, fn) with fn = lambda x: -x
Apply ==
    \E outds \in OutCodes :
        LET t == Slot(outds) IN StepOn("Apply", t, "", <<>>, t, _applyFn(ds[t], "neg"))

\* the ranges Clip is invoked with; (-inf, inf) are the defaults
ClipRanges == {<<F(0), F(10)>>, <<F(2), PInf>>, <<NInf, PInf>>}

Clip ==
    \E outds \in OutCodes, rng \in ClipRanges :
        LET t == Slot(outds) IN
        StepOn("Clip", t, "", rng, t, _clip_dataset(ds[t], rng[1], rng[2]))

\* (cos, sin) of the angles Rotate is invoked with: 0 and pi/2
Angles == {<<F(1), F(0)>>, <<F(0), F(1)>>}
Centres == {<<F(0), F(0)>>, <<F(1), F(2)>>}

Rotate ==
    \E a \in Angles, c \in Centres :
        LET cosa == a[1]
            sina == a[2]
            cx == c[1]
            cy == c[2]
            xvals == MapS(FSub, ds[dss[1]].data, cx)
            yvals == MapS(FSub, ds[dss[2]].data, cy)
            cleared(data) == DS(data, None, None, None)
        IN  IF ~BOk(xvals, yvals)
            THEN Step("Rotate", "", "", <<cosa, sina, cx, cy>>, ds, "ValueError")
            ELSE LET nx == MapS(FAdd, Map2(FSub, SMap(FMul, cosa, xvals),
                                                 SMap(FMul, sina, yvals)), cx)
                     ny == MapS(FAdd, Map2(FAdd, SMap(FMul, sina, xvals),
                                                 SMap(FMul, cosa, yvals)), cy)
                 IN  Step("Rotate", "", "", <<cosa, sina, cx, cy>>,
                          [ds EXCEPT ![dss[1]] = cleared(nx), ![dss[2]] = cleared(ny)],
                          "none")

Translate ==
    \E dx \in Scalars, dy \in Scalars :
        Step("Translate", "", "", <<dx, dy>>,
             [ds EXCEPT ![dss[1]].data = MapS(FAdd, @, dx),
                        ![dss[2]].data = MapS(FAdd, @, dy)],
             "none")

\* every dataset of the slot array that is not None, sliced
sliceSlots(start, stop, step) ==
    [d \in DsIds |-> IF \E i \in 1..Len(dss) : dss[i] = d
                     THEN sliceDataset(ds[d], start, stop, step)
                     ELSE ds[d]]

Thin ==
    \E step \in {2, 0 - 1}, start \in {0, 1} :
        Step("Thin", "", "", <<step, start>>,
             sliceSlots(Some(start), None, Some(step)), "none")

IndexRange ==
    \E start \in {0, 1, 0 - 1}, end \in {None, Some(2)} :
        Step("IndexRange", "", "", <<start>> \o end,
             sliceSlots(Some(start), end, None), "none")

Next ==
    \/ Add \/ Sub \/ SubFrom \/ Mul \/ Div \/ CumSum
    \/ SubMin \/ SubMax \/ SubMean
    \/ DivMax \/ DivMean \/ DivStd \/ DivSum \/ NormRange
    \/ Pow \/ Apply \/ Clip
    \/ Rotate \/ Translate \/ Thin \/ IndexRange

Spec == Init /\ [][Next]_vars

\* ------------------------------------------------------ CSV import: state

MaxCols == 2
MaxRows == 2
MaxReads == 2

\* the tokens of the files: a number, a blank, a name, two error suffixes,
\* a text header and a date header
Tokens ==
    {<<"1">>, <<>>, <<"x">>, <<"+", "-">>, <<"-">>,
     <<"s", " ", "(", "t", "e", "x", "t", ")">>,
     <<"d", " ", "(", "d", "a", "t", "e", ")">>}

Rows == UNION {[1..n -> Tokens] : n \in 1..MaxCols}
Files == UNION {[1..n -> Rows] : n \in 1..MaxRows}

\* the prefix and suffix a reader is made with
Affixes == {<<<<>>, <<>>>>, <<<<"p">>, <<"q">>>>}

\* the datasets of the transforms while a file is imported
IdleDs == [d \in DsIds |-> MkDS(DataA, ErrA, "none", 3)]

InitCSV ==
    /\ csvfile \in Files
    /\ reader \in {ReadCSV(r, a[1], a[2]) : r \in BOOLEAN, a \in Affixes}
    /\ run = NewRun
    /\ document = NoDocument
    /\ ds = IdleDs
    /\ pre = IdleDs
    /\ last = NoCall
    /\ steps = 0

\* ---------------------------------------------------- CSV import: actions

\* the item is a header directive: it does not convert and is not blank
IsDirective(self, colnum, col) ==
    ~ConvOk(CType(self, colnum), col) /\ strip(col) # <<>>

\* reading the item calls _generateName
Generates(self, colnum, col) ==
    IF ConvOk(CType(self, colnum), col) THEN colnum \notin DOMAIN self.colnames
    ELSE /\ strip(col) # <<>>
         /\ split(strip(col))[1] \in ErrorSuffixes
         /\ PrevValid(self, colnum - 1) = [exc |-> "none", col |-> 0 - 1]

\* readData up to its loop: the file is opened, the iterator made, and the
\* names and types of the columns start empty (lines 154-171)
readDataOpen ==
    /\ run.phase # "reading"
    /\ run.reads < MaxReads
    /\ reader' = readDataReset(reader)
    /\ run' = [phase |-> "reading", li |-> 1, ci |-> 1, reads |-> run.reads + 1,
               fixed |-> EmptyDict, item |-> NoItem, before |-> readDataReset(reader),
               autonamed |-> FALSE]
    /\ UNCHANGED <<csvfile, document, ds, pre, last, steps>>

\* one item of the current line (lines 181-217); an exception ends readData
readDataLoop ==
    LET lines == Lines(csvfile, reader.readrows) IN
    /\ run.phase = "reading"
    /\ run.li <= Len(lines)
    /\ LET colnum == run.ci - 1
           col == lines[run.li][run.ci]
           r == readDataItem(reader, colnum, col)
           lastOfLine == run.ci >= Len(lines[run.li])
       IN  /\ reader' = r.self
           /\ run' = [run EXCEPT
                  !.phase = IF r.exc # "none" THEN "raised" ELSE "reading",
                  !.li = IF lastOfLine THEN run.li + 1 ELSE run.li,
                  !.ci = IF lastOfLine THEN 1 ELSE run.ci + 1,
                  !.fixed = IF IsDirective(reader, colnum, col) /\ r.exc = "none"
                               /\ colnum \notin DOMAIN run.fixed
                            THEN Put(run.fixed, colnum,
                                     [name |-> r.self.colnames[colnum],
                                      type |-> r.self.coltypes[colnum + 1]])
                            ELSE run.fixed,
                  !.item = [colnum |-> colnum, col |-> col],
                  !.before = reader,
                  !.autonamed = run.autonamed \/ Generates(reader, colnum, col)]
    /\ UNCHANGED <<csvfile, document, ds, pre, last, steps>>

\* the iterator is exhausted (StopIteration, lines 176-178): readData returns
readDataReturn ==
    /\ run.phase = "reading"
    /\ run.li > Len(Lines(csvfile, reader.readrows))
    /\ run' = [run EXCEPT !.phase = "done"]
    /\ UNCHANGED <<csvfile, reader, document, ds, pre, last, steps>>

\* setData, called once readData has ended: a dataset for every name that
\* is no error series; a name without a type raises KeyError after the
\* datasets of the names that the iteration of the dict met before it
setData ==
    /\ run.phase \in {"done", "raised"}
    /\ LET names == BaseNames(reader)
           typed == {n \in names : n \in DOMAIN reader.nametypes}
       IN  IF typed = names
           THEN document' = [sets |-> Committed(document.sets, reader, names),
                             dsnames |-> sorted(names), exc |-> "none",
                             called |-> TRUE, reads |-> run.reads]
           ELSE \E S \in SUBSET typed :
                   document' = [sets |-> Committed(document.sets, reader, S),
                                dsnames |-> document.dsnames, exc |-> "KeyError",
                                called |-> TRUE, reads |-> run.reads]
    /\ UNCHANGED <<csvfile, reader, run, ds, pre, last, steps>>

NextCSV == readDataOpen \/ readDataLoop \/ readDataReturn \/ setData

SpecCSV == InitCSV /\ [][NextCSV]_vars

\* ------------------------------------------------------------------ claims

ErrFields == {"serr", "perr", "nerr"}
BinaryOps == {"Add", "Sub", "SubFrom", "Mul", "Div"}

\* the last invocation was transform op with a dataset as the operand val
DatasetCall(ops) == last.op \in ops /\ last.val \in DsIds

\* every set error of dataset d is as long as its data
LengthsAgree(d) == \A f \in ErrFields : d[f] # None => Len(Arr(d[f])) = Len(d.data)

\* C1: after any sequence of transform invocations every set error sequence
\* (serr, perr, nerr) of every dataset is as long as that dataset's data.
C1_ErrorLengths == \A d \in DsIds : LengthsAgree(ds[d])

\* C2: no dataset ever has serr set together with perr or nerr.
C2_ErrorKindsExclusive ==
    \A d \in DsIds : ds[d].serr # None => ds[d].perr = None /\ ds[d].nerr = None

\* a function apply has replaced the symmetric error of a dataset by an
\* asymmetric pair
C2_Witness ==
    /\ last.op = "Pow"
    /\ last.exc = "none"
    /\ pre[last.out].serr # None
    /\ ds[last.out].serr = None
    /\ ds[last.out].perr # None
    /\ ds[last.out].nerr # None

\* C10: no transform invocation with a valid role code and filled x and y
\* slots raises an exception for the shape of its data (a TypeError of an
\* unset error array, a ValueError of arrays that do not broadcast).
C10_NoShapeException == last.exc \notin {"TypeError", "ValueError"}

\* the slot dataset and the operand of the last invocation, before and after
Out0 == pre[last.out]
Out1 == ds[last.out]
Val0 == pre[last.val]
Val1 == ds[last.val]
\* the shared length of the two operands of the last invocation
MinLen0 == Min(Len(Out0.data), Len(Val0.data))

\* C3: an arithmetic transform invoked with a dataset operand writes its
\* result to the slot dataset and leaves the operand val unchanged; SubFrom
\* sets the slot dataset's data to val.data - slot.data.
C3_OperandUnchanged ==
    DatasetCall(BinaryOps) =>
        /\ Val1 = Val0
        /\ (last.op = "SubFrom" /\ last.exc = "none" =>
                Out1.data = Map2(FSub, Take(Val0.data, MinLen0),
                                       Take(Out0.data, MinLen0)))

\* C4: Mul (Div) by a dataset without errors multiplies (divides) every set
\* error of the target elementwise by |d2.data| over the shared length.
C4_ErrorsRescaled ==
    DatasetCall({"Mul", "Div"}) /\ hasErrors(Out0) /\ ~hasErrors(Val0) =>
        \A f \in ErrFields :
            Out0[f] # None =>
                Out1[f] = Some([i \in 1..Min(MinLen0, Len(Arr(Out0[f]))) |->
                    IF last.op = "Mul"
                    THEN FMul(Arr(Out0[f])[i], FAbs(Val0.data[i]))
                    ELSE FDiv(Arr(Out0[f])[i], FAbs(Val0.data[i]))])

\* C5: Add, Sub, Mul or Div by a dataset with errors on a target without
\* leaves the target with exactly the error kinds the operand had, each
\* truncated to the shared length.
C5_ErrorShapeCopied ==
    DatasetCall({"Add", "Sub", "Mul", "Div"}) /\ hasErrors(Val0) /\ ~hasErrors(Out0) =>
        \A f \in ErrFields :
            /\ Out1[f] # None <=> Val0[f] # None
            /\ Out1[f] # None =>
                   Len(Arr(Out1[f])) = Min(MinLen0, Len(Arr(Val0[f])))

\* the squared error e_i^2 of C6 at index i: serr^2, or 0.5*(perr^2 + nerr^2)
\* with an unset perr or nerr counting as 0
SqErrAt(d, i) ==
    IF d.serr # None THEN FSq(At(Arr(d.serr), i))
    ELSE FHalf(FAdd(IF d.perr # None THEN FSq(At(Arr(d.perr), i)) ELSE 0,
                    IF d.nerr # None THEN FSq(At(Arr(d.nerr), i)) ELSE 0))

\* C6: Add or Sub of two datasets that both have errors gives
\* data = d1.data +/- d2.data over the shared length, perr and nerr cleared
\* and serr = sqrt(e1^2 + e2^2) elementwise.
C6_AddSubCombined ==
    DatasetCall({"Add", "Sub"}) /\ hasErrors(Out0) /\ hasErrors(Val0) =>
        /\ Out1.data = [i \in 1..MinLen0 |->
               IF last.op = "Add" THEN FAdd(Out0.data[i], Val0.data[i])
               ELSE FSub(Out0.data[i], Val0.data[i])]
        /\ Out1.perr = None
        /\ Out1.nerr = None
        /\ Out1.serr # None
        /\ Out1.serr = Some([i \in 1..MinLen0 |->
               FSqrt(FAdd(SqErrAt(Out0, i), SqErrAt(Val0, i)))])

\* C9: a binary transform of two datasets of unequal length returns, and its
\* output data has the shorter length.
C9_TruncationLaw ==
    DatasetCall(BinaryOps) /\ Len(Out0.data) # Len(Val0.data) =>
        /\ last.exc = "none"
        /\ Len(Out1.data) = MinLen0

\* the upper and lower extremes data+err and data-err of dataset d at index
\* i, broadcast as numpy does: err is serr, or perr above and -nerr below
\* (nerr holds the negative error as a negative number)
HasUpper(d) == d.serr # None \/ d.perr # None
HasLower(d) == d.serr # None \/ d.nerr # None
UpperAt(d, i) ==
    FAdd(At(d.data, i), At(Arr(IF d.serr # None THEN d.serr ELSE d.perr), i))
LowerAt(d, i) ==
    IF d.serr # None THEN FSub(At(d.data, i), At(Arr(d.serr), i))
    ELSE FAdd(At(d.data, i), At(Arr(d.nerr), i))

RECURSIVE PrefixSum(_, _)
\* a[1] + ... + a[i], summed from the first element
PrefixSum(a, i) == IF i = 0 THEN 0 ELSE FAdd(PrefixSum(a, i - 1), a[i])

RECURSIVE SuffixSum(_, _)
\* a[Len(a)] + ... + a[i], summed from the last element
SuffixSum(a, i) == IF i > Len(a) THEN 0 ELSE FAdd(SuffixSum(a, i + 1), a[i])

\* the cumulative sum at index i, from the front or (reverse) from the back
CumAt(a, i, reverse) == IF reverse THEN SuffixSum(a, i) ELSE PrefixSum(a, i)

\* non-finite values count as 0 in a cumulative sum
ZeroNonFinite(a) == [i \in 1..Len(a) |-> IF isfinite(a[i]) THEN a[i] ELSE 0]
Squares(a) == [i \in 1..Len(a) |-> FMul(a[i], a[i])]

\* the cumulative sum of dataset d at its upper (lower) extreme, less the
\* cumulative sum of its data
CumUpperDelta(d, reverse) ==
    [i \in 1..Len(d.data) |->
        FSub(CumAt(ZeroNonFinite([j \in 1..Len(d.data) |-> UpperAt(d, j)]), i, reverse),
             CumAt(ZeroNonFinite(d.data), i, reverse))]
CumLowerDelta(d, reverse) ==
    [i \in 1..Len(d.data) |->
        FSub(CumAt(ZeroNonFinite([j \in 1..Len(d.data) |-> LowerAt(d, j)]), i, reverse),
             CumAt(ZeroNonFinite(d.data), i, reverse))]

\* C7 as stated: CumSum recomputes the cumulative sum at data+err and
\* data-err, sets perr and nerr to the deltas from the new data, and unsets
\* serr.
C7_CumSumAtExtremes ==
    last.op = "CumSum" /\ hasErrors(Out0) =>
        /\ Out1.serr = None
        /\ HasUpper(Out0) => Out1.perr = Some(CumUpperDelta(Out0, last.args[1] = 1))
        /\ HasLower(Out0) => Out1.nerr = Some(CumLowerDelta(Out0, last.args[1] = 1))

\* sqrt of the cumulative sum of the squares of error array e, at index i
QuadAt(e, i, reverse) == FSqrt(CumAt(ZeroNonFinite(Squares(e)), i, reverse))

\* C7, amended: CumSum returns; data becomes its cumulative sum (from the
\* back if reverse, non-finite values counting as 0); the same errors stay
\* set, serr included; serr and perr become the square root of the
\* cumulative sum of their squares, nerr the negative of it.
C7_CumSumQuadrature ==
    last.op = "CumSum" =>
        LET reverse == last.args[1] = 1 IN
        /\ last.exc = "none"
        /\ Out1.data = [i \in 1..Len(Out0.data) |->
                            CumAt(ZeroNonFinite(Out0.data), i, reverse)]
        /\ \A f \in ErrFields : Out1[f] # None <=> Out0[f] # None
        /\ \A f \in {"serr", "perr"} :
               Out0[f] # None =>
                   Arr(Out1[f]) = [i \in 1..Len(Arr(Out0[f])) |->
                                       QuadAt(Arr(Out0[f]), i, reverse)]
        /\ Out0.nerr # None =>
               Arr(Out1.nerr) = [i \in 1..Len(Arr(Out0.nerr)) |->
                                     FNeg(QuadAt(Arr(Out0.nerr), i, reverse))]

\* a reverse cumulative sum of a dataset with a symmetric error has changed
\* its data and its serr, which is still set
C7_Witness ==
    /\ last.op = "CumSum"
    /\ last.args = <<1>>
    /\ Out0.serr # None
    /\ Out1.serr # None
    /\ Out1.serr # Out0.serr
    /\ Out1.data # Out0.data

\* the clipped value, and the deltas of the clipped extremes from it
ClipAt(d, i, minv, maxv) == FMin(FMax(At(d.data, i), minv), maxv)
ClipUpperDelta(d, minv, maxv) ==
    [i \in 1..BLen(d.data, Arr(IF d.serr # None THEN d.serr ELSE d.perr)) |->
        FSub(FMin(FMax(UpperAt(d, i), minv), maxv), ClipAt(d, i, minv, maxv))]
ClipLowerDelta(d, minv, maxv) ==
    [i \in 1..BLen(d.data, Arr(IF d.serr # None THEN d.serr ELSE d.nerr)) |->
        FSub(FMin(FMax(LowerAt(d, i), minv), maxv), ClipAt(d, i, minv, maxv))]

\* what C8 and its amended form share: Clip sets data to clip(data), clears
\* serr, sets perr to clipped(data+err) - clipped(data), and sets an error
\* only on the side the dataset had one
ClipCommon ==
    LET minv == last.args[1]
        maxv == last.args[2]
    IN  /\ Out1.data = [i \in 1..Len(Out0.data) |-> ClipAt(Out0, i, minv, maxv)]
        /\ Out1.serr = None
        /\ Out1.perr # None <=> HasUpper(Out0)
        /\ Out1.nerr # None <=> HasLower(Out0)
        /\ HasUpper(Out0) => Arr(Out1.perr) = ClipUpperDelta(Out0, minv, maxv)

\* C8 as stated: the negative error becomes clipped(data) - clipped(data-err).
C8_ClipAsStated ==
    last.op = "Clip" /\ last.exc = "none" =>
        /\ ClipCommon
        /\ HasLower(Out0) =>
               Arr(Out1.nerr) = Map1(FNeg,
                   ClipLowerDelta(Out0, last.args[1], last.args[2]))

\* C8, amended: the negative error becomes clipped(data-err) - clipped(data),
\* a delta that is never positive; a Clip that raises (an error array that
\* does not broadcast with data) leaves the dataset as it was.
C8_ClipSignedDelta ==
    last.op = "Clip" =>
        /\ last.exc = "none" =>
               /\ ClipCommon
               /\ HasLower(Out0) =>
                      Arr(Out1.nerr) =
                          ClipLowerDelta(Out0, last.args[1], last.args[2])
        /\ last.exc # "none" => Out1 = Out0

\* Clip to 0..10 of data [-5, 5, 15] with serr 3 gives [0, 5, 10] with
\* perr [0, 3, 0] and nerr [0, -3, 0]
C8_Witness ==
    /\ last.op = "Clip"
    /\ last.args = <<F(0), F(10)>>
    /\ Out0.data = <<F(0 - 5), F(5), F(15)>>
    /\ Out0.serr = Some(<<F(3), F(3), F(3)>>)
    /\ Out1.data = <<F(0), F(5), F(10)>>
    /\ Out1.perr = Some(<<F(0), F(3), F(0)>>)
    /\ Out1.nerr = Some(<<F(0), F(0 - 3), F(0)>>)

\* ------------------------------------------------------ claims: CSV import

\* the last item readData read, the column it stands in, and the reader as
\* it was before the item
ItemCol == run.item.colnum
ItemWords == split(strip(run.item.col))
ItemRead == run.phase # "new" /\ ItemCol >= 0
\* the last item was taken as a header directive, and readData went on
DirectiveRead ==
    ItemRead /\ IsDirective(run.before, ItemCol, run.item.col) /\ run.phase # "raised"

\* column c is bound to name and type
Bound(self, c, name, type) ==
    /\ c \in DOMAIN self.colnames
    /\ self.colnames[c] = name
    /\ self.coltypes[c + 1] = type

BasesBefore(c) ==
    {b \in 0..(c - 1) :
        /\ b \in DOMAIN run.before.colnames
        /\ LET n == run.before.colnames[b]
           IN  n # <<>> /\ n[Len(n)] \notin {"+", "-"}}
NearestBase(c) == CHOOSE b \in BasesBefore(c) : \A o \in BasesBefore(c) : o <= b

\* C12: an error-suffix directive ('+', '-', '+-') in column c binds c to the
\* name of the nearest base column before c followed by the suffix, with the
\* base's type; with no base column before c, it binds c to the generated
\* name prefix + 'col'/'row' + (c+1) + suffix.
C12_ErrorSuffixName ==
    /\ ItemRead
    /\ IsDirective(run.before, ItemCol, run.item.col)
    /\ ItemWords[1] \in ErrorSuffixes
    => /\ run.phase # "raised"
       /\ IF BasesBefore(ItemCol) # {}
          THEN LET b == NearestBase(ItemCol)
               IN  Bound(reader, ItemCol,
                         run.before.colnames[b] \o ItemWords[1],
                         run.before.coltypes[b + 1])
          ELSE ItemCol \in DOMAIN reader.colnames
               /\ reader.colnames[ItemCol] =
                      reader.prefix
                      \o (IF reader.readrows THEN <<"r", "o", "w">> ELSE <<"c", "o", "l">>)
                      \o Decimal(ItemCol + 1) \o reader.suffix

\* C13: readData never raises, whatever the tokens of the file.
C13_ReadNeverRaises == run.phase # "raised"

\* a reader made as this one was, before any readData
FreshReader == ReadCSV(reader.readrows, reader.prefix, reader.suffix)

\* C14: when readData has returned, be it the first or a later call on the
\* reader, the values of every name are those of one read of the file by a
\* fresh reader.
C14_FreshPerRead ==
    run.phase = "done" => reader.data = readData(FreshReader, csvfile).self.data

\* the grid with rows and columns exchanged, a short row counting as ending
\* in empty tokens
Transpose(rows) ==
    [c \in 1..MaxLength(rows) |->
        [r \in 1..Len(rows) |-> IF c <= Len(rows[r]) THEN rows[r][c] ELSE <<>>]]
Rectangular(rows) == \A r \in 1..Len(rows) : Len(rows[r]) = Len(rows[1])

\* the named datasets a read leaves: name -> type and dataset
Datasets(self) ==
    [name \in BaseNames(self) |->
        [type |-> self.nametypes[name], dataset |-> MakeDataset(self, name)]]

\* a first read of the transposed file in the other orientation
OtherRead ==
    readData(ReadCSV(~reader.readrows, reader.prefix, reader.suffix),
             Transpose(csvfile))
FirstReadDone == run.phase = "done" /\ run.reads = 1

\* C15 as stated: a read of a grid in one orientation and a read of its
\* transpose in the other leave the same named datasets.
C15_OrientationEquivalence ==
    FirstReadDone =>
        /\ OtherRead.exc = "none"
        /\ Datasets(OtherRead.self) = Datasets(reader)

\* C15, amended: they leave the same named datasets if every row of the
\* grid has the same length and no name of the read is a generated one (a
\* generated name is 'col<k>' in a row-major read and 'row<k>' in a
\* column-major one).
C15_EquivalenceOfNamedRectangles ==
    FirstReadDone /\ Rectangular(csvfile) /\ ~run.autonamed =>
        /\ OtherRead.exc = "none"
        /\ Datasets(OtherRead.self) = Datasets(reader)

\* a 2 x 2 grid whose columns both have a name from a header and a value
C15_Witness ==
    /\ FirstReadDone
    /\ Len(csvfile) = 2
    /\ Rectangular(csvfile)
    /\ Len(csvfile[1]) = 2
    /\ ~run.autonamed
    /\ Cardinality(BaseNames(reader)) = 2
    /\ \A name \in BaseNames(reader) : Len(reader.data[name]) = 1

\* setData has been called since the last readData ended
Finalized == document.called /\ document.reads = run.reads /\ run.phase # "reading"

\* C16: setData sets one dataset for every name of data that does not end in
\* '+' or '-': its data is data[name]; a name of type string gets a text
\* dataset without errors, any other a dataset with serr, perr, nerr from
\* data[name+'+-'], data[name+'+'], data[name+'-'] where they exist; the
\* names returned are exactly these names in increasing order.
C16_SetDataCommits ==
    Finalized =>
        LET names == {n \in DOMAIN reader.data : n[Len(n)] # "+" /\ n[Len(n)] # "-"}
            has(n) == n \in DOMAIN reader.data
            opt(n) == IF has(n) THEN Some(reader.data[n]) ELSE None
        IN  /\ document.exc = "none"
            /\ {document.dsnames[i] : i \in 1..Len(document.dsnames)} = names
            /\ Len(document.dsnames) = Cardinality(names)
            /\ \A i \in 1..(Len(document.dsnames) - 1) :
                   StrLess(document.dsnames[i], document.dsnames[i + 1])
            /\ DOMAIN document.sets = names
            /\ \A n \in names :
                   LET d == document.sets[n] IN
                   /\ d.data = reader.data[n]
                   /\ IF reader.nametypes[n] = "string"
                      THEN d.kind = "DatasetText"
                           /\ d.serr = None /\ d.perr = None /\ d.nerr = None
                      ELSE d.kind = "Dataset"
                           /\ d.serr = opt(n \o <<"+", "-">>)
                           /\ d.perr = opt(n \o <<"+">>)
                           /\ d.nerr = opt(n \o <<"-">>)

\* setData has set a numeric dataset with a value and a symmetric error, from
\* a base column followed by a '+-' column
C16_Witness ==
    /\ Finalized
    /\ \E n \in DOMAIN document.sets :
           /\ document.sets[n].kind = "Dataset"
           /\ Len(document.sets[n].data) = 1
           /\ document.sets[n].serr = Some(<<F(1)>>)
           /\ document.sets[n].nerr = None

\* C20: every set error sequence of a numeric dataset that setData has set
\* is as long as the dataset's data.
C20_CommittedLengths ==
    Finalized =>
        \A n \in DOMAIN document.sets :
            document.sets[n].kind = "Dataset" => LengthsAgree(document.sets[n])

\* ------------------------------------------- reductions of non-finite data

\* data with values that are not finite: none finite, some finite
DataN == <<NaN, PInf, NInf>>
DataM == <<F(1), NaN, F(3)>>
DataP == <<NInf, F(2), F(4)>>
DataQ == <<F(0 - 2), PInf, NaN>>

NonFiniteX ==
    {MkDS(d, ErrA, k, 3) : d \in {DataN, DataM, DataP}, k \in {"none", "serr", "asym"}}
    \cup {MkDS(DataN, ErrA, "none", 1)}

NonFiniteY ==
    {MkDS(DataQ, ErrB, "serr", 3), MkDS(DataN, ErrB, "asym", 2),
     MkDS(DataB, ErrB, "none", 3)}

InitNonFinite ==
    /\ ds \in {[x |-> dx, y |-> dy, v |-> MkDS(DataB, ErrB, "none", 3)] :
                   dx \in NonFiniteX, dy \in NonFiniteY}
    /\ pre = ds
    /\ last = NoCall
    /\ steps = 0
    /\ csvfile = <<>>
    /\ reader = ReadCSV(FALSE, <<>>, <<>>)
    /\ run = NewRun
    /\ document = NoDocument

NextReduce ==
    \/ SubMin \/ SubMax \/ SubMean
    \/ DivMax \/ DivMean \/ DivStd \/ DivSum \/ NormRange

SpecReduce == InitNonFinite /\ [][NextReduce]_vars

\* ------------------------------------------------------ claims: reductions

SubOps == {"SubMin", "SubMax", "SubMean"}
DivOps == {"DivMax", "DivMean", "DivStd", "DivSum"}
ReductionOps == SubOps \cup DivOps \cup {"NormRange"}

\* the values of a that are neither NaN nor an infinity, in order
FiniteVals(a) == SelectSeq(a, LAMBDA v : v # NaN /\ v # PInf /\ v # NInf)

Values(a) == {a[i] : i \in DOMAIN a}
Least(a) == CHOOSE m \in Values(a) : \A v \in Values(a) : m <= v
Greatest(a) == CHOOSE m \in Values(a) : \A v \in Values(a) : m >= v
Total(a) == PrefixSum(a, Len(a))
Average(a) == FDiv(Total(a), F(Len(a)))

\* the statistic of a reduction over the values fin
Statistic(op, fin) ==
    CASE op \in {"SubMin"} -> Least(fin)
      [] op \in {"SubMax", "DivMax"} -> Greatest(fin)
      [] op \in {"SubMean", "DivMean"} -> Average(fin)
      [] op = "DivSum" -> Total(fin)
      [] op = "DivStd" ->
            FSqrt(Average([i \in DOMAIN fin |-> FSq(FAbs(FSub(fin[i], Average(fin))))]))

Scaled(o, f) == IF o = None THEN None ELSE Some([i \in DOMAIN o[1] |-> FMul(o[1][i], f)])

\* C18: a reduction transform computes its statistic over the finite data
\* values only, and with no finite data value it changes nothing and raises
\* nothing
C18_FiniteOnly ==
    last.op \in ReductionOps =>
        LET d0 == pre[last.out]
            d1 == ds[last.out]
            fin == FiniteVals(d0.data)
        IN  /\ last.exc = "none"
            /\ \A o \in DsIds \ {last.out} : ds[o] = pre[o]
            /\ fin = <<>> => d1 = d0
            /\ fin # <<>> /\ last.op \in SubOps =>
                   d1 = [d0 EXCEPT !.data =
                            [i \in DOMAIN d0.data |->
                                FSub(d0.data[i], Statistic(last.op, fin))]]
            /\ fin # <<>> /\ last.op \in DivOps =>
                   LET f == FDiv(F(1), Statistic(last.op, fin))
                   IN  d1 = [data |-> [i \in DOMAIN d0.data |-> FMul(d0.data[i], f)],
                             serr |-> Scaled(d0.serr, f),
                             perr |-> Scaled(d0.perr, f),
                             nerr |-> Scaled(d0.nerr, f)]
            /\ fin # <<>> /\ last.op = "NormRange" =>
                   LET lo == Least(fin)
                       f == FDiv(F(1), FSub(Greatest(fin), lo))
                   IN  d1 = [d0 EXCEPT !.data =
                                [i \in DOMAIN d0.data |->
                                    FMul(FSub(d0.data[i], lo), f)]]

\* a reduction of data with a NaN and finite values has rewritten the data
C18_Witness ==
    /\ last.op = "SubMean"
    /\ last.exc = "none"
    /\ pre[last.out].data = DataM
    /\ ds[last.out].data = <<F(0 - 1), NaN, F(1)>>

\* ------------------------------------------------ transform forms: actions

\* one invocation that left the datasets as the outcome r says
StepCall(op, out, val, args, r) == Step(op, out, val, args, r.d, r.exc)

\* the operands val of an invocation whose slot dataset is t
Vals(t) == {DsVal(v) : v \in Operands(t)} \cup {Scalar(s) : s \in Scalars}

\* the functions ApplyX and ApplyY are invoked with
Fns == {"neg", "sq"}

\* the powers PowX and PowY are invoked with
Powers == {F(2)}

\* the X and Y forms. AddX, SubX, MulX, DivX and NormRangeX call the generic
\* factory with 'x', the others call the helper on slot 0, the first of the
\* sequence dss; the Y forms do so with 'y' and slot 1, the second

AddX ==
    \E val \in Vals(dss[1]) :
        StepCall("AddX", dss[1], val, <<>>,
                 addAdd(ds, Str("x"), val))

AddY ==
    \E val \in Vals(dss[2]) :
        StepCall("AddY", dss[2], val, <<>>,
                 addAdd(ds, Str("y"), val))

CumSumX ==
    \E reverse \in BOOLEAN :
        StepCall("CumSumX", dss[1], NoVal, <<reverse>>,
                 OnSlot(ds, dss[1], _cumsum(ds[dss[1]], reverse)))

CumSumY ==
    \E reverse \in BOOLEAN :
        StepCall("CumSumY", dss[2], NoVal, <<reverse>>,
                 OnSlot(ds, dss[2], _cumsum(ds[dss[2]], reverse)))

SubX ==
    \E val \in Vals(dss[1]) :
        StepCall("SubX", dss[1], val, <<>>,
                 subSub(ds, Str("x"), val))

SubY ==
    \E val \in Vals(dss[2]) :
        StepCall("SubY", dss[2], val, <<>>,
                 subSub(ds, Str("y"), val))

SubMinX ==
    StepCall("SubMinX", dss[1], NoVal, <<>>,
             OnSlot(ds, dss[1], _subfn(ds[dss[1]], "min")))

SubMinY ==
    StepCall("SubMinY", dss[2], NoVal, <<>>,
             OnSlot(ds, dss[2], _subfn(ds[dss[2]], "min")))

SubMaxX ==
    StepCall("SubMaxX", dss[1], NoVal, <<>>,
             OnSlot(ds, dss[1], _subfn(ds[dss[1]], "max")))

SubMaxY ==
    StepCall("SubMaxY", dss[2], NoVal, <<>>,
             OnSlot(ds, dss[2], _subfn(ds[dss[2]], "max")))

SubMeanX ==
    StepCall("SubMeanX", dss[1], NoVal, <<>>,
             OnSlot(ds, dss[1], _subfn(ds[dss[1]], "mean")))

SubMeanY ==
    StepCall("SubMeanY", dss[2], NoVal, <<>>,
             OnSlot(ds, dss[2], _subfn(ds[dss[2]], "mean")))

SubFromX ==
    \E val \in Vals(dss[1]) :
        StepCall("SubFromX", dss[1], val, <<>>,
                 _subfrom(ds, dss[1], val))

\* SubFromY on the X dataset
SubFromY_x ==
    \E val \in Vals(dss[2]) :
        StepCall("SubFromY", dss[2], val, <<>>,
                 _subfrom(ds, dss[1], val))

SubFromY ==
    \E val \in Vals(dss[2]) :
        StepCall("SubFromY", dss[2], val, <<>>,
                 _subfrom(ds, dss[2], val))

MulX ==
    \E val \in Vals(dss[1]) :
        StepCall("MulX", dss[1], val, <<>>,
                 arithMul(ds, Str("x"), val))

MulY ==
    \E val \in Vals(dss[2]) :
        StepCall("MulY", dss[2], val, <<>>,
                 arithMul(ds, Str("y"), val))

DivX ==
    \E val \in Vals(dss[1]) :
        StepCall("DivX", dss[1], val, <<>>,
                 divDiv(ds, Str("x"), val))

DivY ==
    \E val \in Vals(dss[2]) :
        StepCall("DivY", dss[2], val, <<>>,
                 divDiv(ds, Str("y"), val))

DivMaxX ==
    StepCall("DivMaxX", dss[1], NoVal, <<>>,
             OnSlot(ds, dss[1], _divfn(ds[dss[1]], "max")))

DivMaxY ==
    StepCall("DivMaxY", dss[2], NoVal, <<>>,
             OnSlot(ds, dss[2], _divfn(ds[dss[2]], "max")))

DivMeanX ==
    StepCall("DivMeanX", dss[1], NoVal, <<>>,
             OnSlot(ds, dss[1], _divfn(ds[dss[1]], "mean")))

DivMeanY ==
    StepCall("DivMeanY", dss[2], NoVal, <<>>,
             OnSlot(ds, dss[2], _divfn(ds[dss[2]], "mean")))

DivStdX ==
    StepCall("DivStdX", dss[1], NoVal, <<>>,
             OnSlot(ds, dss[1], _divfn(ds[dss[1]], "std")))

DivStdY ==
    StepCall("DivStdY", dss[2], NoVal, <<>>,
             OnSlot(ds, dss[2], _divfn(ds[dss[2]], "std")))

DivSumX ==
    StepCall("DivSumX", dss[1], NoVal, <<>>,
             OnSlot(ds, dss[1], _divfn(ds[dss[1]], "sum")))

DivSumY ==
    StepCall("DivSumY", dss[2], NoVal, <<>>,
             OnSlot(ds, dss[2], _divfn(ds[dss[2]], "sum")))

NormRangeX ==
    StepCall("NormRangeX", dss[1], NoVal, <<>>,
             rangeNormRange(ds, Str("x")))

NormRangeY ==
    StepCall("NormRangeY", dss[2], NoVal, <<>>,
             rangeNormRange(ds, Str("y")))

Log10X ==
    StepCall("Log10X", dss[1], NoVal, <<>>,
             OnSlot(ds, dss[1], _applyFn(ds[dss[1]], "log10")))

Log10Y ==
    StepCall("Log10Y", dss[2], NoVal, <<>>,
             OnSlot(ds, dss[2], _applyFn(ds[dss[2]], "log10")))

LogX ==
    StepCall("LogX", dss[1], NoVal, <<>>,
             OnSlot(ds, dss[1], _applyFn(ds[dss[1]], "log")))

LogY ==
    StepCall("LogY", dss[2], NoVal, <<>>,
             OnSlot(ds, dss[2], _applyFn(ds[dss[2]], "log")))

ExpX ==
    StepCall("ExpX", dss[1], NoVal, <<>>,
             OnSlot(ds, dss[1], _applyFn(ds[dss[1]], "exp")))

ExpY ==
    StepCall("ExpY", dss[2], NoVal, <<>>,
             OnSlot(ds, dss[2], _applyFn(ds[dss[2]], "exp")))

Exp10X ==
    StepCall("Exp10X", dss[1], NoVal, <<>>,
             OnSlot(ds, dss[1], _applyFn(ds[dss[1]], "exp10")))

Exp10Y ==
    StepCall("Exp10Y", dss[2], NoVal, <<>>,
             OnSlot(ds, dss[2], _applyFn(ds[dss[2]], "exp10")))

ExpVX ==
    \E val \in Scalars :
        StepCall("ExpVX", dss[1], NoVal, <<val>>,
                 OnSlot(ds, dss[1], _applyFn(ds[dss[1]], ExpVFun(val))))

ExpVY ==
    \E val \in Scalars :
        StepCall("ExpVY", dss[2], NoVal, <<val>>,
                 OnSlot(ds, dss[2], _applyFn(ds[dss[2]], ExpVFun(val))))

PowX ==
    \E val \in Powers :
        StepCall("PowX", dss[1], NoVal, <<val>>,
                 OnSlot(ds, dss[1], _applyFn(ds[dss[1]], PowFun(val))))

PowY ==
    \E val \in Powers :
        StepCall("PowY", dss[2], NoVal, <<val>>,
                 OnSlot(ds, dss[2], _applyFn(ds[dss[2]], PowFun(val))))

ApplyX ==
    \E fn \in Fns :
        StepCall("ApplyX", dss[1], NoVal, <<fn>>,
                 OnSlot(ds, dss[1], _applyFn(ds[dss[1]], fn)))

ApplyY ==
    \E fn \in Fns :
        StepCall("ApplyY", dss[2], NoVal, <<fn>>,
                 OnSlot(ds, dss[2], _applyFn(ds[dss[2]], fn)))

ClipX ==
    \E rng \in ClipRanges :
        StepCall("ClipX", dss[1], NoVal, rng,
                 OnSlot(ds, dss[1], _clip_dataset(ds[dss[1]], rng[1], rng[2])))

ClipY ==
    \E rng \in ClipRanges :
        StepCall("ClipY", dss[2], NoVal, rng,
                 OnSlot(ds, dss[2], _clip_dataset(ds[dss[2]], rng[1], rng[2])))

NextXY ==
    \/ AddX \/ AddY \/ CumSumX \/ CumSumY \/ SubX \/ SubY
    \/ SubMinX \/ SubMinY \/ SubMaxX \/ SubMaxY \/ SubMeanX \/ SubMeanY
    \/ SubFromX \/ SubFromY \/ MulX \/ MulY \/ DivX \/ DivY
    \/ DivMaxX \/ DivMaxY \/ DivMeanX \/ DivMeanY \/ DivStdX \/ DivStdY
    \/ DivSumX \/ DivSumY \/ NormRangeX \/ NormRangeY \/ Log10X \/ Log10Y
    \/ LogX \/ LogY \/ ExpX \/ ExpY \/ Exp10X \/ Exp10Y
    \/ ExpVX \/ ExpVY \/ PowX \/ PowY \/ ApplyX \/ ApplyY
    \/ ClipX \/ ClipY

SpecXY == Init /\ [][NextXY]_vars

\* ----------------------------------------------------- claims: X/Y forms

\* the generic form of each X form and of each Y form
XForm ==
    [AddX |-> "Add", CumSumX |-> "CumSum", SubX |-> "Sub", SubMinX |-> "SubMin",
     SubMaxX |-> "SubMax", SubMeanX |-> "SubMean", SubFromX |-> "SubFrom", MulX |-> "Mul",
     DivX |-> "Div", DivMaxX |-> "DivMax", DivMeanX |-> "DivMean", DivStdX |-> "DivStd",
     DivSumX |-> "DivSum", NormRangeX |-> "NormRange", Log10X |-> "Log10", LogX |-> "Log",
     ExpX |-> "Exp", Exp10X |-> "Exp10", ExpVX |-> "ExpV", PowX |-> "Pow",
     ApplyX |-> "Apply", ClipX |-> "Clip"]

YForm ==
    [AddY |-> "Add", CumSumY |-> "CumSum", SubY |-> "Sub", SubMinY |-> "SubMin",
     SubMaxY |-> "SubMax", SubMeanY |-> "SubMean", SubFromY |-> "SubFrom", MulY |-> "Mul",
     DivY |-> "Div", DivMaxY |-> "DivMax", DivMeanY |-> "DivMean", DivStdY |-> "DivStd",
     DivSumY |-> "DivSum", NormRangeY |-> "NormRange", Log10Y |-> "Log10", LogY |-> "Log",
     ExpY |-> "Exp", Exp10Y |-> "Exp10", ExpVY |-> "ExpV", PowY |-> "Pow",
     ApplyY |-> "Apply", ClipY |-> "Clip"]

\* C17: invoking an X form (or Y form) leaves the datasets, and ends, as
\* invoking the generic form with role code 'x' (or 'y') and the same
\* remaining arguments from the same starting state does
C17_FormsAgree ==
    /\ last.op \in DOMAIN XForm =>
           [d |-> ds, exc |-> last.exc]
               = Generic(XForm[last.op], pre, Str("x"), last.val, last.args)
    /\ last.op \in DOMAIN YForm =>
           [d |-> ds, exc |-> last.exc]
               = Generic(YForm[last.op], pre, Str("y"), last.val, last.args)

\* SubFromY with a dataset operand has rewritten the operand
C17_Witness ==
    /\ last.op = "SubFromY"
    /\ last.val = DsVal("v")
    /\ last.exc = "none"
    /\ ds["v"] # pre["v"]
    /\ ds["y"] = pre["y"]

\* ----------------------------------------------------- role codes: actions

\* the role codes in the letter cases the model passes
RoleCodes ==
    {"x", "X", "y", "Y", "l", "L", "label", "Label", "LABEL",
     "s", "S", "size", "Size", "SIZE", "c", "C", "color", "Color", "COLOR"}

\* the values passed as a role code: the role codes, strings that are none,
\* an int, None, and tuples of two, one and no items
Codes ==
    {Str(s) : s \in RoleCodes \cup {"z", "", "xy"}}
    \cup {PyInt("0"), PyNone, Tuple("('x', 'y')", 2), Tuple("('x',)", 1),
          Tuple("()", 0)}

\* one call of dsCodeToIdx
dsCodeToIdxCall ==
    \E code \in Codes :
        LET r == dsCodeToIdxAny(code)
        IN  Step("dsCodeToIdx", code, NoVal, <<r.v>>, ds, r.exc)

\* the registered names of the generic forms
GenericNames ==
    {"Add", "Sub", "SubFrom", "Mul", "Div", "CumSum", "SubMin", "SubMax",
     "SubMean", "DivMax", "DivMean", "DivStd", "DivSum", "NormRange",
     "Log10", "Log", "Exp", "Exp10", "ExpV", "Pow", "Apply", "Clip"}

\* the operand and the other arguments a generic form is invoked with
Calls(name) ==
    CASE name \in {"Add", "Sub", "SubFrom", "Mul", "Div"} ->
             {[val |-> v, args |-> <<>>] : v \in {DsVal("v"), Scalar(F(2))}}
      [] name = "CumSum" -> {[val |-> NoVal, args |-> <<r>>] : r \in BOOLEAN}
      [] name \in {"ExpV", "Pow"} -> {[val |-> NoVal, args |-> <<F(2)>>]}
      [] name = "Apply" -> {[val |-> NoVal, args |-> <<"neg">>]}
      [] name = "Clip" -> {[val |-> NoVal, args |-> <<F(0), F(10)>>]}
      [] OTHER -> {[val |-> NoVal, args |-> <<>>]}

\* one invocation of a generic form with any value as its role code
Invoke ==
    \E name \in GenericNames, code \in Codes :
        \E call \in Calls(name) :
            StepCall(name, code, call.val, call.args,
                     Generic(name, ds, code, call.val, call.args))

NextCodes == dsCodeToIdxCall \/ Invoke

SpecCodes == Init /\ [][NextCodes]_vars

\* ------------------------------------------------------ claims: role codes

\* the role codes of slot index 0 to 4, in their letter cases
CodesOf ==
    <<{"x", "X"}, {"y", "Y"}, {"l", "L", "label", "Label", "LABEL"},
      {"s", "S", "size", "Size", "SIZE"}, {"c", "C", "color", "Color", "COLOR"}>>

IsRoleCode(code) ==
    code.type = "str" /\ \E i \in DOMAIN CodesOf : code.str \in CodesOf[i]

IndexOf(code) == (CHOOSE i \in DOMAIN CodesOf : code.str \in CodesOf[i]) - 1

\* C19: dsCodeToIdx maps every role code, in any letter case, to its slot
\* index; every other value fails with ValueError, and a generic transform
\* invoked with such a value fails with it before modifying any dataset
C19_CodesMapOrFail ==
    /\ last.op = "dsCodeToIdx" =>
           IF IsRoleCode(last.out)
           THEN last.exc = "none" /\ last.args = <<IndexOf(last.out)>>
           ELSE last.exc = "ValueError"
    /\ last.op \in GenericNames /\ ~IsRoleCode(last.out) =>
           last.exc = "ValueError" /\ ds = pre

====
